---- MODULE Spec2Model ----
(***************************************************************************)
(* A model of the flag value resolution and command dispatch engine of the *)
(* cli package: Command.Run and the helpers it calls (command.go), and the *)
(* slice value cell SliceBase (flag_slice_base).                           *)
(*                                                                         *)
(* Scope of the Run model.  Commands are declared with HideHelp set and an *)
(* empty Version, so that neither the help command, the help flag nor the  *)
(* version flag is injected; shell completion is off (the argument list    *)
(* never ends with the completion flag); UseShortOptionHandling,           *)
(* PrefixMatchCommands and AllowExtFlags are off.  Flags on the command    *)
(* line are boolean style: one token per occurrence.  Errors returned by   *)
(* hooks are plain errors (they carry no exit code), so the default exit   *)
(* handler returns to its caller.                                          *)
(***************************************************************************)
EXTENDS Integers, Sequences, FiniteSets, TLC

NIL == "nil"

(* ----------------------------- bounds ---------------------------------- *)
\* longest argument list handed to the root Run, the program name excluded
MaxArgs == 3

\* the width in bits of int and of uint64 in the model, in place of 64
IntSize == 5

\* the longest literal given to Set of an integer cell
MaxLit == 3

(* --------------------------- the universe ------------------------------ *)
Cmds == {"app", "sub", "leaf"}

HookNames == {"Before", "After", "OnUsageError", "ExitErrHandler"}

\* the command line spelling of each flag name; "-u" names no declared flag
FlagTok == [t \in {"-a", "-A", "-b", "-g", "-h", "-u"} |->
              CASE t = "-a" -> "a" [] t = "-A" -> "A" [] t = "-b" -> "b"
                [] t = "-g" -> "g" [] t = "-h" -> "h" [] OTHER -> "u"]

VARIABLES
  cfg,              \* the declared command tree: the exported fields of each Command
  stack,            \* the chain of active Run invocations, the innermost last
  parent,           \* Command.parent
  flagSet,          \* Command.flagSet
  appliedFlags,     \* Command.appliedFlags
  isInError,        \* Command.isInError
  didSetupDefaults, \* Command.didSetupDefaults
  hasBeenSet,       \* the flags whose value a value source supplied (Flag.IsSet)
  flagValue,        \* the value cell of each flag that has been applied
  log,              \* the calls so far, in order: Run and the user callbacks
  result,           \* what the outermost Run returned
  argv,             \* the arguments the application gives to Run of the root
  history,          \* what the earlier Runs of the root did and returned
  access,           \* the last lookup the application made by name, if any
  disableSliceFlagSeparator, \* the package variable of that name
  sliceFlag,        \* a declared slice flag: Value, Sources, Destination
  mem,              \* the []T variables that the slice pointers refer to
  nilSlices,        \* those of them that hold a nil slice
  value,            \* FlagBase.value of the slice flag: its SliceBase cell
  occurrences,      \* the values the command line gave the slice flag so far
  peer,             \* a second slice cell, of the same element type
  failed,           \* the step of the slice flag that returned an error, if any
  number,           \* an integer value cell: an intValue or a uint64Value
  literal,          \* the string the application has for Set of the integer cell
  sets              \* the calls of Set of the integer cell so far

\* the state of the dispatch engine, and of the slice flag
runVars == <<cfg, stack, parent, flagSet, appliedFlags, isInError,
             didSetupDefaults, hasBeenSet, flagValue, log, result>>
sliceVars == <<sliceFlag, mem, nilSlices, value, occurrences, peer, failed>>

\* the state of the application that calls Run and looks flags up, and of
\* the integer cell
numVars == <<number, literal, sets>>
userVars == <<argv, history, access, numVars>>

vars == <<runVars, sliceVars, userVars, disableSliceFlagSeparator>>

(* ------------------------- sequences helpers --------------------------- *)
Range(s) == {s[i] : i \in 1..Len(s)}

RECURSIVE Concat(_)
Concat(ss) == IF ss = <<>> THEN <<>> ELSE Head(ss) \o Concat(Tail(ss))

\* the least element of a non-empty set of numbers
Min(S) == CHOOSE i \in S : \A j \in S : i <= j

\* the greatest element of a non-empty set of numbers
Max(S) == CHOOSE i \in S : \A j \in S : i >= j

\* the subsequence of s at the indices in I
RECURSIVE Pick(_, _)
Pick(s, I) ==
  IF I = {} THEN <<>> ELSE <<s[Min(I)]>> \o Pick(s, I \ {Min(I)})

\* all sequences over S of length at most n
SeqsUpTo(S, n) == UNION {[1..k -> S] : k \in 0..n}

(* ------------------------------ strings -------------------------------- *)
\* A string is the sequence of its characters.  The serialization prefix
\* slPfx is one reserved character, which no other string contains.
slPfx == "sl:::"

DigitVal == [d \in {"0", "1", "2", "3", "4", "5", "6", "7", "8", "9",
                      "a", "b", "c", "d", "e", "f"} |->
               CASE d = "0" -> 0 [] d = "1" -> 1 [] d = "2" -> 2 [] d = "3" -> 3
                 [] d = "4" -> 4 [] d = "5" -> 5 [] d = "6" -> 6 [] d = "7" -> 7
                 [] d = "8" -> 8 [] d = "9" -> 9 [] d = "a" -> 10 [] d = "b" -> 11
                 [] d = "c" -> 12 [] d = "d" -> 13 [] d = "e" -> 14 [] OTHER -> 15]

\* the number that the digits s denote in the given base
RECURSIVE Number(_, _)
Number(s, base) ==
  IF s = <<>> THEN 0
  ELSE base * Number(SubSeq(s, 1, Len(s) - 1), base) + DigitVal[s[Len(s)]]

\* s is a non-empty run of digits below the base
IsDigits(s, base) ==
  /\ s # <<>>
  /\ \A i \in 1..Len(s) : s[i] \in DOMAIN DigitVal /\ DigitVal[s[i]] < base

\* 2^n
RECURSIVE Pow2(_)
Pow2(n) == IF n = 0 THEN 1 ELSE 2 * Pow2(n - 1)

\* the lower case of a letter of a literal
Lower(c) == CASE c = "X" -> "x" [] c = "O" -> "o" [] c = "B" -> "b"
              [] c = "F" -> "f" [] OTHER -> c

\* the base that a literal selects when the base is auto-detected, and the
\* digits that follow the prefix: 0b, 0o and 0x need a digit after them, any
\* other leading 0 selects base 8
BasePrefix(s) ==
  IF s # <<>> /\ s[1] = "0"
    THEN IF Len(s) >= 3 /\ Lower(s[2]) = "b" THEN [base |-> 2, rest |-> SubSeq(s, 3, Len(s))]
         ELSE IF Len(s) >= 3 /\ Lower(s[2]) = "o" THEN [base |-> 8, rest |-> SubSeq(s, 3, Len(s))]
         ELSE IF Len(s) >= 3 /\ Lower(s[2]) = "x" THEN [base |-> 16, rest |-> SubSeq(s, 3, Len(s))]
         ELSE [base |-> 8, rest |-> Tail(s)]
    ELSE [base |-> 10, rest |-> s]

\* a departure from parseDigits below: the product is not compared with the
\* cutoff before it is formed
RECURSIVE parseDigitsUnchecked(_, _, _)
parseDigitsUnchecked(s, base, n) ==
  IF s = <<>> THEN [ok |-> TRUE, val |-> n]
  ELSE LET c == Lower(Head(s)) IN
       IF c \notin DOMAIN DigitVal \/ DigitVal[c] >= base
         THEN [ok |-> FALSE, val |-> 0]
       ELSE LET n0 == (n * base) % Pow2(IntSize)
                n1 == (n0 + DigitVal[c]) % Pow2(IntSize)
            IN  IF n1 < n0 THEN [ok |-> FALSE, val |-> Pow2(IntSize) - 1]
                ELSE parseDigitsUnchecked(Tail(s), base, n1)

\* the digit loop of strconv.ParseUint, in unsigned arithmetic of IntSize
\* bits: a character that is no digit of the base is a syntax error; a value
\* at or above the cutoff, whose product with the base would not fit, and a
\* sum that wraps, are range errors
RECURSIVE parseDigits(_, _, _)
parseDigits(s, base, n) ==
  IF s = <<>> THEN [ok |-> TRUE, val |-> n]
  ELSE LET c      == Lower(Head(s))
           cutoff == ((Pow2(IntSize) - 1) \div base) + 1
       IN  IF c \notin DOMAIN DigitVal \/ DigitVal[c] >= base
             THEN [ok |-> FALSE, val |-> 0]
           ELSE IF n >= cutoff
             THEN [ok |-> FALSE, val |-> Pow2(IntSize) - 1]
           ELSE LET n0 == (n * base) % Pow2(IntSize)
                    n1 == (n0 + DigitVal[c]) % Pow2(IntSize)
                IN  IF n1 < n0 THEN [ok |-> FALSE, val |-> Pow2(IntSize) - 1]
                    ELSE parseDigits(Tail(s), base, n1)

\* strconv.ParseUint(s, 0, 64) on literals without underscores, the 64 bits
\* being the IntSize bits of the model: no sign is permitted
ParseUint(s) ==
  IF s = <<>> THEN [ok |-> FALSE, val |-> 0]
  ELSE LET p == BasePrefix(s) IN parseDigits(p.rest, p.base, 0)

\* strconv.ParseInt(s, 0, strconv.IntSize): a sign, then what ParseUint
\* reads, which must be below 2^(IntSize-1), or equal to it after a minus
\* (un is what the one call of ParseUint returned)
ParseInt(s) ==
  LET neg    == s # <<>> /\ s[1] = "-"
      body   == IF s # <<>> /\ s[1] \in {"+", "-"} THEN Tail(s) ELSE s
      cutoff == Pow2(IntSize - 1)
      signed(un) ==
        IF ~un.ok THEN [ok |-> FALSE, val |-> 0]
        ELSE IF ~neg /\ un.val >= cutoff THEN [ok |-> FALSE, val |-> cutoff - 1]
        ELSE IF neg /\ un.val > cutoff THEN [ok |-> FALSE, val |-> 0 - cutoff]
        ELSE [ok |-> TRUE, val |-> IF neg THEN 0 - un.val ELSE un.val]
  IN  CHOOSE r \in {signed(un) : un \in {ParseUint(body)}} : TRUE

\* strings.TrimSpace
RECURSIVE TrimSpace(_)
TrimSpace(s) ==
  IF s # <<>> /\ s[1] = " " THEN TrimSpace(Tail(s))
  ELSE IF s # <<>> /\ s[Len(s)] = " " THEN TrimSpace(SubSeq(s, 1, Len(s) - 1))
  ELSE s

\* strings.Split(s, sep) for a separator of one character
RECURSIVE Split(_, _)
Split(s, sep) ==
  LET at == {i \in 1..Len(s) : s[i] = sep} IN
  IF at = {} THEN <<s>>
  ELSE <<SubSeq(s, 1, Min(at) - 1)>> \o Split(SubSeq(s, Min(at) + 1, Len(s)), sep)

\* strings.HasPrefix(value, slPfx)
HasPrefix(s) == s # <<>> /\ s[1] = slPfx

\* strconv.FormatInt(n, 10)
RECURSIVE Digits(_)
Digits(n) ==
  LET d == CHOOSE c \in DOMAIN DigitVal : DigitVal[c] = n % 10 IN
  IF n < 10 THEN <<d>> ELSE Digits(n \div 10) \o <<d>>

FormatInt(n) == IF n < 0 THEN <<"-">> \o Digits(0 - n) ELSE Digits(n)

\* json.Marshal of a slice of integers
RECURSIVE joinInts(_)
joinInts(v) ==
  IF v = <<>> THEN <<>>
  ELSE IF Len(v) = 1 THEN FormatInt(v[1])
  ELSE FormatInt(v[1]) \o <<",">> \o joinInts(Tail(v))

Marshal(v) == <<"[">> \o joinInts(v) \o <<"]">>

\* the JSON literal that json.Marshal gives for a nil pointer and for a nil
\* slice
null == <<"n", "u", "l", "l">>

\* a JSON number that is an integer: no leading zero, no plus sign
IsJSONInt(s) ==
  LET body == IF s # <<>> /\ s[1] = "-" THEN Tail(s) ELSE s IN
  /\ IsDigits(body, 10)
  /\ Len(body) > 1 => body[1] # "0"

\* json.Unmarshal into a pointer to a slice of integers: an array of integers
\* gives its elements, the literal null sets the pointer to nil, and a text
\* that is no JSON value is an error and the slice is kept
Unmarshal(text) ==
  LET t     == TrimSpace(text)
      inner == IF Len(t) >= 2 THEN TrimSpace(SubSeq(t, 2, Len(t) - 1)) ELSE <<>>
      elems == IF inner = <<>> THEN <<>> ELSE Split(inner, ",")
  IN  IF t = null
        THEN [ok |-> TRUE, null |-> TRUE, val |-> <<>>]
      ELSE IF /\ Len(t) >= 2 /\ t[1] = "[" /\ t[Len(t)] = "]"
              /\ \A k \in 1..Len(elems) : IsJSONInt(TrimSpace(elems[k]))
        THEN [ok |-> TRUE, null |-> FALSE,
              val |-> [k \in 1..Len(elems) |-> ParseInt(TrimSpace(elems[k])).val]]
        ELSE [ok |-> FALSE, null |-> FALSE, val |-> <<>>]

(* ---------------------------- slice cells ------------------------------ *)
\* flag.go flagSplitMultiValues, with the default separator
flagSplitMultiValues(val) ==
  IF disableSliceFlagSeparator THEN <<val>> ELSE Split(val, ",")

\* a departure from Create below, which the claim about the caller's default
\* must tell from it: the new cell is bound to the slice of the default
\* itself, and nothing is copied into the target of p
createShared(m, val, p) ==
  [mem |-> m, cell |-> [nil |-> FALSE, slice |-> "val", hasBeenSet |-> FALSE]]

\* SliceBase.Create: the target of p becomes a copy of val, and the new cell
\* has not been set
Create(m, val, p) ==
  [mem |-> [m EXCEPT ![p] = val],
   cell |-> [nil |-> FALSE, slice |-> p, hasBeenSet |-> FALSE]]

\* the loop of SliceBase.Set over the split value: each token is trimmed and
\* given to the inner cell's Set (intValue.Set), whose value is appended; the
\* first error ends the loop with what was appended before it, and the
\* append through a nil slice pointer is a fault
RECURSIVE setTokens(_, _, _)
setTokens(m, i, toks) ==
  IF toks = <<>> THEN [mem |-> m, cell |-> i, err |-> FALSE, panic |-> FALSE]
  ELSE LET v == ParseInt(TrimSpace(Head(toks))) IN
       IF ~v.ok THEN [mem |-> m, cell |-> i, err |-> TRUE, panic |-> FALSE]
       ELSE IF i.slice = NIL
         THEN [mem |-> m, cell |-> i, err |-> FALSE, panic |-> TRUE]
       ELSE setTokens([m EXCEPT ![i.slice] = Append(@, v.val)], i, Tail(toks))

\* two departures from clearOnFirstSet below, which the claims about Set
\* must tell from it: Set never clears, and Set clears every time
neverClear(m, i) == m
alwaysClear(m, i) == [m EXCEPT ![i.slice] = <<>>]

\* what Set and SetOne do first: the contents are dropped unless the cell
\* has been set before
clearOnFirstSet(m, i) ==
  IF ~i.hasBeenSet THEN [m EXCEPT ![i.slice] = <<>>] ELSE m

\* SliceBase.Set.  The first Set of a cell whose slice pointer is nil faults
\* on the clearing.  A serialized value is decoded through the address of
\* the slice pointer: null sets the pointer to nil, and an array is stored
\* where the pointer points, in a new []T when the pointer is nil
Set(m, i, val) ==
  IF i.slice = NIL /\ ~i.hasBeenSet
    THEN [mem |-> m, cell |-> i, err |-> FALSE, panic |-> TRUE]
  ELSE
  LET m1 == IF i.slice = NIL THEN m ELSE clearOnFirstSet(m, i)
      i1 == [i EXCEPT !.hasBeenSet = TRUE]
  IN  IF HasPrefix(val)
        THEN LET u  == Unmarshal(Tail(val))
                 i2 == IF u.null THEN [i1 EXCEPT !.slice = NIL]
                       ELSE IF u.ok /\ i.slice = NIL THEN [i1 EXCEPT !.slice = "heap"]
                       ELSE i1
             IN
             [mem |-> IF u.ok /\ ~u.null THEN [m1 EXCEPT ![i2.slice] = u.val] ELSE m1,
              cell |-> i2, err |-> FALSE, panic |-> FALSE]
        ELSE setTokens(m1, i1, flagSplitMultiValues(val))

\* SliceBase.SetOne
SetOne(m, i, v) ==
  [mem |-> [clearOnFirstSet(m, i) EXCEPT ![i.slice] = Append(@, v)],
   cell |-> [i EXCEPT !.hasBeenSet = TRUE]]

\* SliceBase.Serialize
Serialize(m, i) ==
  <<slPfx>> \o (IF i.slice = NIL \/ i.slice \in nilSlices THEN null
                                                        ELSE Marshal(m[i.slice]))

\* SliceBase.Value
Value(m, i) == IF i.nil \/ i.slice = NIL THEN <<>> ELSE m[i.slice]

\* SliceBase.Get dereferences the slice pointer
Get(m, i) == IF i.slice = NIL THEN [panic |-> TRUE, val |-> <<>>]
                              ELSE [panic |-> FALSE, val |-> m[i.slice]]

\* FlagBase.Apply for a slice flag, up to the definition of its names.  A
\* value found in the flag's Sources is given to Set of a cell of its own,
\* created with the default, and what that cell then holds is the default the
\* flag's cell is created with; the flag's cell is created over the
\* Destination when there is one
ApplyFlagBase(m, f) ==
  LET found  == f.Sources # <<>>
      tmpVal == Create(m, f.Value, "tmp")
      r      == Set(tmpVal.mem, tmpVal.cell, f.Sources[1])
      newVal == IF found THEN r.mem["tmp"] ELSE f.Value
      p      == IF f.Destination THEN "dest" ELSE "new"
  IN  IF found /\ r.err
        THEN [mem |-> r.mem, cell |-> [nil |-> TRUE, slice |-> p, hasBeenSet |-> FALSE],
              err |-> TRUE]
        ELSE LET c == Create(IF found THEN r.mem ELSE m, newVal, p) IN
             [mem |-> c.mem, cell |-> c.cell, err |-> FALSE]

(* ------------------------------ errors --------------------------------- *)
\* An error value is the sequence of the errors it combines; nil is <<>>.
NoErr == <<>>
Err(kind, c) == <<[kind |-> kind, cmd |-> c, names |-> <<>>]>>

\* errors.go errRequiredFlags: the names of the missing flags
errRequiredFlags(c, missing) ==
  <<[kind |-> "Required", cmd |-> c, names |-> missing]>>

\* a departure from newMultiError below: the later error replaces the earlier
lastErrorOnly(e1, e2) == e2

\* errors.go newMultiError
newMultiError(e1, e2) == e1 \o e2

(* ------------------------- the declared tree --------------------------- *)
\* Command.Commands
Commands(c) == cfg.Commands[c]

\* Command.Flags
Flags(c) == cfg.Flags[c]

\* Command.MutuallyExclusiveFlags
MutuallyExclusiveFlags(c) == cfg.MutuallyExclusiveFlags[c]

\* a callback field of the Command is non-nil
Has(c, hook) == <<c, hook>> \in cfg.hooks

\* Flag.Names: the primary name, then the aliases
fNames(f) == <<f.Name>> \o f.Aliases

\* the identity of a declared flag object
FlagId(f) == <<f.Owner, f.Name>>

\* Command.Names; the modelled commands declare no aliases
Names(c) == <<c>>

\* Command.HasName
HasName(c, name) == name \in Range(Names(c))

\* a departure from Command below: the name is looked up among all the
\* commands of the tree
commandAnywhere(c, name) == IF name \in Cmds THEN name ELSE NIL

\* Command.Command
Command(c, name) ==
  LET hits == {i \in 1..Len(Commands(c)) : HasName(Commands(c)[i], name)}
  IN  IF hits = {} THEN NIL ELSE Commands(c)[Min(hits)]

\* Command.allFlags
allFlags(c) ==
  Flags(c) \o Concat([g \in 1..Len(MutuallyExclusiveFlags(c)) |->
                        Concat(MutuallyExclusiveFlags(c)[g].Flags)])

\* Command.Lineage, over a given parent relation
RECURSIVE LineageIn(_, _, _)
LineageIn(par, c, fuel) ==
  IF par[c] = NIL \/ fuel = 0 THEN <<c>>
  ELSE <<c>> \o LineageIn(par, par[c], fuel - 1)

Lineage(c) == LineageIn(parent, c, Cardinality(Cmds))

\* Command.Root, over a given parent relation
RootIn(par, c) ==
  LET l == LineageIn(par, c, Cardinality(Cmds)) IN l[Len(l)]

Root(c) == RootIn(parent, c)

(* ------------------------------ flag sets ------------------------------ *)
\* A flag.FlagSet: formal maps each defined name to its flag, actual is the
\* set of names the parse (or Set) visited, args the tokens left after Parse.
EmptyFlagSet == [nil |-> FALSE, formal |-> <<>>, actual |-> {}, args |-> <<>>]

\* the nil *flag.FlagSet of a command that has not parsed yet
NilFlagSet == [nil |-> TRUE, formal |-> <<>>, actual |-> {}, args |-> <<>>]

Defined(fs, name) == name \in DOMAIN fs.formal

\* the value cell that Flag.Apply creates: it holds the default, false, or
\* the value of the source, true, and no occurrence has been counted
NewCell(f) == [value |-> f.Sourced, count |-> 0]

\* Flag.Apply: defines every name of the flag in the set; a value source that
\* supplies a value marks the flag as set.  The value cell is created anew,
\* except that a persistent flag which has been applied before keeps its
\* cell, so that what an ancestor was given is what its descendants see
Apply(st, f) ==
  LET ns == Range(fNames(f)) IN
  [st EXCEPT
     !.fs.formal = [n \in (DOMAIN st.fs.formal) \cup ns |->
                      IF n \in ns THEN f ELSE st.fs.formal[n]],
     !.hbs = IF f.Sourced THEN st.hbs \cup {FlagId(f)} ELSE st.hbs,
     !.val = IF f.Persistent /\ FlagId(f) \in DOMAIN st.val THEN st.val
             ELSE [id \in (DOMAIN st.val) \cup {FlagId(f)} |->
                     IF id = FlagId(f) THEN NewCell(f) ELSE st.val[id]]]

\* flag.go newFlagSet: a fresh set with every given flag applied
RECURSIVE ApplyAll(_, _)
ApplyAll(st, fls) ==
  IF fls = <<>> THEN st ELSE ApplyAll(Apply(st, Head(fls)), Tail(fls))

\* a departure from ApplyPersistent below: the walk does not look at the
\* Persistent mark
RECURSIVE applyAncestorFlags(_, _)
applyAncestorFlags(st, fls) ==
  IF fls = <<>> THEN st
  ELSE applyAncestorFlags(
         IF Range(fNames(Head(fls))) \cap DOMAIN st.fs.formal = {}
           THEN [Apply(st, Head(fls)) EXCEPT !.applied = @ \o <<Head(fls)>>]
           ELSE st,
         Tail(fls))

\* the persistent-flag walk of parseFlags, over the flags of the ancestors
\* listed nearest first: a persistent flag none of whose names is in the set
\* is applied and appended to the applied flags
RECURSIVE ApplyPersistent(_, _)
ApplyPersistent(st, fls) ==
  IF fls = <<>> THEN st
  ELSE LET fl == Head(fls)
           applyPersistentFlag ==
             /\ fl.Persistent
             /\ Range(fNames(fl)) \cap DOMAIN st.fs.formal = {}
       IN  ApplyPersistent(
             IF applyPersistentFlag
               THEN [Apply(st, fl) EXCEPT !.applied = @ \o <<fl>>]
               ELSE st,
             Tail(fls))

\* flag.FlagSet.Parse on boolean style flags: tokens are consumed left to
\* right up to the first token that is no flag, or past a "--"; a flag token
\* whose name is not defined is consumed and ends the parse with an error
RECURSIVE Parse(_, _)
Parse(fs, toks) ==
  IF toks = <<>> THEN [fs |-> [fs EXCEPT !.args = <<>>], err |-> FALSE]
  ELSE LET s == Head(toks) IN
       IF s = "--"
         THEN [fs |-> [fs EXCEPT !.args = Tail(toks)], err |-> FALSE]
       ELSE IF s \notin DOMAIN FlagTok
         THEN [fs |-> [fs EXCEPT !.args = toks], err |-> FALSE]
       ELSE IF ~Defined(fs, FlagTok[s])
         THEN [fs |-> [fs EXCEPT !.args = Tail(toks)], err |-> TRUE]
       ELSE Parse([fs EXCEPT !.actual = @ \cup {FlagTok[s]}], Tail(toks))

\* the calls of Set that Parse made on the tokens it consumed: each flag
\* token sets the cell of the flag it names to true and counts an occurrence
visits(fs, consumed, val) ==
  [id \in DOMAIN val |->
     LET at == {i \in 1..Len(consumed) :
                  /\ consumed[i] \in DOMAIN FlagTok
                  /\ Defined(fs, FlagTok[consumed[i]])
                  /\ FlagId(fs.formal[FlagTok[consumed[i]]]) = id}
     IN  IF at = {} THEN val[id]
         ELSE [value |-> TRUE, count |-> val[id].count + Cardinality(at)]]

\* flag.go normalizeFlags: a flag of the list one of whose names was visited
\* counts as visited under each of its names
RECURSIVE normalizeFlags(_, _)
normalizeFlags(fls, fs) ==
  IF fls = <<>> THEN fs
  ELSE LET ns == Range(fNames(Head(fls))) IN
       normalizeFlags(Tail(fls),
         IF ns \cap fs.actual # {} THEN [fs EXCEPT !.actual = @ \cup ns] ELSE fs)

\* Args.Tail: everything after the command name
ArgsTail(osArgs) == IF Len(osArgs) >= 2 THEN Tail(osArgs) ELSE <<>>

\* Command.newFlagSet and Command.parseFlags, for command c whose lineage is
\* anc (c first).  Gives the new flag set, applied flags, source marks and
\* value cells, the argument list handed back to Run and whether the parse
\* failed.
parseFlags(c, anc, osArgs) ==
  LET st0 == ApplyAll([fs |-> EmptyFlagSet, hbs |-> hasBeenSet,
                       applied |-> appliedFlags[c] \o allFlags(c),
                       val |-> flagValue],
                      allFlags(c))
  IN
  IF c \in cfg.SkipFlagParsing
    THEN \* cmd.Args() is evaluated before the set is parsed
         LET p == Parse(st0.fs, <<"--">> \o ArgsTail(osArgs))
         IN  [fs |-> p.fs, hbs |-> st0.hbs, applied |-> st0.applied,
              val |-> st0.val, args |-> st0.fs.args, err |-> p.err]
    ELSE LET st1  == ApplyPersistent(st0,
                       Concat([i \in 1..(Len(anc) - 1) |-> Flags(anc[i + 1])]))
             toks == ArgsTail(osArgs)
             p    == Parse(st1.fs, toks)
             fs2  == IF p.err THEN p.fs ELSE normalizeFlags(Flags(c), p.fs)
         IN  [fs |-> fs2, hbs |-> st1.hbs, applied |-> st1.applied,
              val |-> visits(st1.fs,
                             SubSeq(toks, 1, Len(toks) - Len(p.fs.args)),
                             st1.val),
              args |-> fs2.args, err |-> p.err]

(* ------------------------------ lookups -------------------------------- *)
\* a departure from lookupFlagSet below: only the command's own flag set is
\* looked at
lookupOwnFlagSet(c, name) ==
  IF ~flagSet[c].nil /\ Defined(flagSet[c], name) THEN c ELSE NIL

\* Command.lookupFlagSet: the nearest command of the lineage whose flag set
\* defines the name, or NIL
lookupFlagSet(c, name) ==
  LET l    == Lineage(c)
      hits == {i \in 1..Len(l) : ~flagSet[l[i]].nil /\ Defined(flagSet[l[i]], name)}
  IN  IF hits = {} THEN NIL ELSE l[Min(hits)]

\* Command.lookupFlag: the first flag of that name among the Flags of the
\* lineage, as a sequence of one flag; <<>> stands for nil
lookupFlag(c, name) ==
  LET all  == Concat([i \in 1..Len(Lineage(c)) |-> Flags(Lineage(c)[i])])
      hits == {i \in 1..Len(all) : name \in Range(fNames(all[i]))}
  IN  IF hits = {} THEN <<>> ELSE <<all[Min(hits)]>>

\* Command.IsSet
IsSet(c, name) ==
  LET owner == lookupFlagSet(c, name) IN
  IF owner = NIL THEN FALSE
  ELSE IF name \in flagSet[owner].actual THEN TRUE
  ELSE LET fl == lookupFlag(c, name) IN
       IF fl = <<>> THEN FALSE ELSE FlagId(fl[1]) \in hasBeenSet

\* Command.Value: <<v>> for the value v that the flag set found holds
\* under the name, <<>> for nil
CommandValue(c, name) ==
  LET owner == lookupFlagSet(c, name) IN
  IF owner = NIL THEN <<>>
  ELSE <<flagValue[FlagId(flagSet[owner].formal[name])].value>>

\* Command.Count
Count(c, name) ==
  LET owner == lookupFlagSet(c, name) IN
  IF owner = NIL THEN 0
  ELSE flagValue[FlagId(flagSet[owner].formal[name])].count

\* Command.Args
Args(c) == flagSet[c].args

\* Command.LocalFlagNames: the names the flag set saw, then every name of a
\* flag of the command that a value source set, duplicates removed
LocalFlagNames(c) ==
  flagSet[c].actual \cup
  UNION {Range(fNames(Flags(c)[i])) :
           i \in {j \in 1..Len(Flags(c)) : FlagId(Flags(c)[j]) \in hasBeenSet}}

\* Command.FlagNames, as the set of the names it lists
FlagNames(c) ==
  UNION {LocalFlagNames(Lineage(c)[i]) : i \in 1..Len(Lineage(c))}

(* ------------------------- the checks of Run --------------------------- *)
\* a departure from missingFlags below: the check stops at the first
\* missing flag
RECURSIVE firstMissingOnly(_, _)
firstMissingOnly(c, fls) ==
  IF fls = <<>> THEN <<>>
  ELSE LET f == Head(fls) IN
       IF f.Required /\ \A i \in 1..Len(fNames(f)) : ~IsSet(c, fNames(f)[i])
         THEN <<fNames(f)[Len(fNames(f))]>>
         ELSE firstMissingOnly(c, Tail(fls))

\* Command.checkRequiredFlags: the missing flags, each under its last name;
\* the error is nil when the list is empty
RECURSIVE missingFlags(_, _)
missingFlags(c, fls) ==
  IF fls = <<>> THEN <<>>
  ELSE LET f           == Head(fls)
           flagPresent == \E i \in 1..Len(fNames(f)) : IsSet(c, fNames(f)[i])
           flagName    == fNames(f)[Len(fNames(f))]
       IN  (IF f.Required /\ ~flagPresent /\ flagName # ""
              THEN <<flagName>> ELSE <<>>)
           \o missingFlags(c, Tail(fls))

\* a departure from checkRequiredFlags below: no flag is reported missing
requiredNeverMissing(c) == <<>>

checkRequiredFlags(c) == missingFlags(c, Flags(c))

\* MutuallyExclusiveFlags.check: an error when flags of more than one option
\* of the group are set, or when the group is required and none is
grpCheck(c, grp) ==
  LET setOpts == {i \in 1..Len(grp.Flags) :
                    \E k \in 1..Len(grp.Flags[i]) :
                      \E n \in Range(fNames(grp.Flags[i][k])) : IsSet(c, n)}
  IN  Cardinality(setOpts) > 1 \/ (setOpts = {} /\ grp.Required)

\* the first group of the command whose check fails, 0 when all pass
failedGroup(c) ==
  LET bad == {g \in 1..Len(MutuallyExclusiveFlags(c)) :
                grpCheck(c, MutuallyExclusiveFlags(c)[g])}
  IN  IF bad = {} THEN 0 ELSE Min(bad)

(* ------------------------------- events -------------------------------- *)
Event(e, c, err, arg) == [e |-> e, cmd |-> c, err |-> err, arg |-> arg]

\* a departure from onInvalidFlag below: every handler of the lineage is
\* called
onInvalidFlagEvery(c, name) ==
  LET l  == Lineage(c)
      hs == {i \in 1..Len(l) : Has(l[i], "InvalidFlagAccessHandler")}
  IN  [i \in 1..Cardinality(hs) |->
         Event("InvalidFlagAccessHandler",
               l[CHOOSE j \in hs : Cardinality({x \in hs : x <= j}) = i], NoErr, name)]

\* Command.onInvalidFlag: the calls it makes, which are the call of the
\* handler of the nearest command, from c up, that has one
onInvalidFlag(c, name) ==
  LET l  == Lineage(c)
      hs == {i \in 1..Len(l) : Has(l[i], "InvalidFlagAccessHandler")}
  IN  IF hs = {} THEN <<>>
      ELSE <<Event("InvalidFlagAccessHandler", l[Min(hs)], NoErr, name)>>

\* a departure from handleExitCoder below: no handler is called
handleExitCoderDropped(c, err) == <<>>

\* Command.handleExitCoder: the error goes to the command found by following
\* the parent pointers to their end: to its ExitErrHandler when it declares
\* one, to the default HandleExitCoder otherwise
handleExitCoder(c, err) ==
  <<Event(IF Has(Root(c), "ExitErrHandler") THEN "ExitErrHandler"
                                             ELSE "HandleExitCoder",
          Root(c), err, "")>>

(* ---------------------------- Command.Run ------------------------------ *)
Frame(c, osArgs, ctx) ==
  [cmd |-> c, pc |-> "setup", osArgs |-> osArgs, ctx |-> ctx, args |-> <<>>,
   deferErr |-> NoErr, after |-> FALSE]

Running == stack # <<>>
Top == stack[Len(stack)]
At(pc) == Running /\ Top.pc = pc
SetTop(f) == [stack EXCEPT ![Len(stack)] = f]

\* Command.setupDefaults, as far as it writes parent pointers
setupDefaults(par, c) ==
  IF didSetupDefaults[c] THEN par
  ELSE [x \in Cmds |-> IF x \in Range(Commands(c)) THEN c ELSE par[x]]

\* the commands below c in the declared tree, c included
RECURSIVE Below(_, _)
Below(c, fuel) ==
  IF fuel = 0 THEN {c}
  ELSE {c} \cup UNION {Below(Commands(c)[i], fuel - 1) : i \in 1..Len(Commands(c))}

\* Command.setupCommandGraph
setupCommandGraph(par, c) ==
  [y \in Cmds |->
     IF \E x \in Below(c, Cardinality(Cmds)) : y \in Range(Commands(x))
       THEN CHOOSE x \in Below(c, Cardinality(Cmds)) : y \in Range(Commands(x))
       ELSE par[y]]

\* Run, up to the call of parseFlags: defaults, parent from the context,
\* command graph
Setup ==
  /\ At("setup")
  /\ LET c  == Top.cmd
         p1 == setupDefaults(parent, c)
         p2 == IF Top.ctx # NIL THEN [p1 EXCEPT ![c] = Top.ctx] ELSE p1
         p3 == IF p2[c] = NIL THEN setupCommandGraph(p2, c) ELSE p2
     IN  /\ parent' = p3
         /\ didSetupDefaults' = [didSetupDefaults EXCEPT ![c] = TRUE]
         /\ disableSliceFlagSeparator' =
              IF didSetupDefaults[c] THEN disableSliceFlagSeparator
              ELSE c \in cfg.DisableSliceFlagSeparator
         /\ stack' = SetTop([Top EXCEPT !.pc = "parse"])
         /\ log' = Append(log, Event("Run", c, NoErr, ""))
  /\ UNCHANGED <<sliceVars, userVars, cfg, flagSet, appliedFlags, isInError, hasBeenSet, flagValue, result>>

\* args, err := cmd.parseFlags(...)
ParseFlags ==
  /\ At("parse")
  /\ LET c == Top.cmd
         r == parseFlags(c, Lineage(c), Top.osArgs)
     IN  /\ flagSet' = [flagSet EXCEPT ![c] = r.fs]
         /\ appliedFlags' = [appliedFlags EXCEPT ![c] = r.applied]
         /\ hasBeenSet' = r.hbs
         /\ flagValue' = r.val
         /\ stack' = SetTop([Top EXCEPT !.args = r.args,
                                        !.pc = IF r.err THEN "usage" ELSE "defer"])
  /\ UNCHANGED <<sliceVars, userVars, disableSliceFlagSeparator, cfg, parent, isInError, didSetupDefaults, log, result>>

\* what OnUsageError may return: nil, the error it was given, another error
UsageResults(c) == {NoErr, Err("Parse", c), Err("OnUsageError", c)}

\* a departure from usageError below: the result of the hook is dropped
usageErrorKept(c, r) == Err("Parse", c)

\* what Run returns on a parse error: the result r of OnUsageError when the
\* command has one, the parse error otherwise
usageError(c, r) == IF Has(c, "OnUsageError") THEN r ELSE Err("Parse", c)

\* Run on a parse error
UsageError ==
  /\ At("usage")
  /\ LET c == Top.cmd IN
     \E r \in (IF Has(c, "OnUsageError") THEN UsageResults(c) ELSE {NoErr}) :
       /\ isInError' = [isInError EXCEPT ![c] = TRUE]
       /\ log' = IF Has(c, "OnUsageError")
                   THEN log \o <<Event("OnUsageError", c, r, "")>>
                            \o handleExitCoder(c, r)
                   ELSE log
       /\ stack' = SetTop([Top EXCEPT !.deferErr = usageError(c, r), !.pc = "ret"])
  /\ UNCHANGED <<sliceVars, userVars, disableSliceFlagSeparator, cfg, parent, flagSet, appliedFlags, didSetupDefaults,
                 hasBeenSet, flagValue, result>>

\* a departure from afterDeferred below: After is never deferred
afterNeverDeferred(c) == FALSE

\* the condition under which Run defers the call of After
afterDeferred(c) == Has(c, "After")

\* a departure from DeferAfter below, which the claim about the order along
\* a dispatch path must tell from it: Run goes from the flag parse to the
\* resolution of the sub-command, and leaves the checks and Before out
DeferAfterThenResolve ==
  /\ At("defer")
  /\ stack' = SetTop([Top EXCEPT !.after = afterDeferred(Top.cmd),
                                 !.pc = "resolve"])
  /\ UNCHANGED <<sliceVars, userVars, disableSliceFlagSeparator, cfg, parent, flagSet, appliedFlags, isInError,
                 didSetupDefaults, hasBeenSet, flagValue, log, result>>

\* the deferred call of After is registered
DeferAfter ==
  /\ At("defer")
  /\ stack' = SetTop([Top EXCEPT !.after = afterDeferred(Top.cmd),
                                 !.pc = "required"])
  /\ UNCHANGED <<sliceVars, userVars, disableSliceFlagSeparator, cfg, parent, flagSet, appliedFlags, isInError,
                 didSetupDefaults, hasBeenSet, flagValue, log, result>>

\* cmd.checkRequiredFlags()
CheckRequired ==
  /\ At("required")
  /\ LET c    == Top.cmd
         miss == checkRequiredFlags(c)
     IN  /\ isInError' = [isInError EXCEPT ![c] = @ \/ miss # <<>>]
         /\ stack' = SetTop(
              IF miss # <<>>
                THEN [Top EXCEPT !.deferErr = errRequiredFlags(c, miss),
                                 !.pc = "defers"]
                ELSE [Top EXCEPT !.pc = "groups"])
  /\ UNCHANGED <<sliceVars, userVars, disableSliceFlagSeparator, cfg, parent, flagSet, appliedFlags, didSetupDefaults,
                 hasBeenSet, flagValue, log, result>>

\* the loop over cmd.MutuallyExclusiveFlags
CheckGroups ==
  /\ At("groups")
  /\ stack' = SetTop(
       IF failedGroup(Top.cmd) # 0
         THEN [Top EXCEPT !.deferErr = Err("Group", Top.cmd), !.pc = "defers"]
         ELSE [Top EXCEPT !.pc = "before"])
  /\ UNCHANGED <<sliceVars, userVars, disableSliceFlagSeparator, cfg, parent, flagSet, appliedFlags, isInError,
                 didSetupDefaults, hasBeenSet, flagValue, log, result>>

\* what a callback may return
HookResults(c, hook) == {NoErr, Err(hook, c)}

\* two departures from beforeFailed below: Run goes on to the flag actions,
\* and Run returns without running what it deferred
beforeFailedGoesOn(f, r) == [f EXCEPT !.pc = "flagactions"]
beforeFailedSkipsDeferred(f, r) == [f EXCEPT !.deferErr = r, !.pc = "ret"]

\* the frame after Before returned the error r: Run returns it
beforeFailed(f, r) == [f EXCEPT !.deferErr = r, !.pc = "defers"]

\* cmd.Before
RunBefore ==
  /\ At("before")
  /\ LET c == Top.cmd IN
     \E r \in (IF Has(c, "Before") THEN HookResults(c, "Before") ELSE {NoErr}) :
       /\ log' = log \o (IF Has(c, "Before") THEN <<Event("Before", c, r, "")>> ELSE <<>>)
                     \o (IF r # NoErr THEN handleExitCoder(c, r) ELSE <<>>)
       /\ stack' = SetTop(
            IF r # NoErr THEN beforeFailed(Top, r)
                         ELSE [Top EXCEPT !.pc = "flagactions"])
  /\ UNCHANGED <<sliceVars, userVars, disableSliceFlagSeparator, cfg, parent, flagSet, appliedFlags, isInError,
                 didSetupDefaults, hasBeenSet, flagValue, result>>

\* the flags runFlagActions calls the Action of: the applied flags that are
\* set under one of their names and have an Action
actionable(c) ==
  Pick(appliedFlags[c],
       {i \in 1..Len(appliedFlags[c]) :
          /\ appliedFlags[c][i].Action
          /\ \E n \in Range(fNames(appliedFlags[c][i])) : IsSet(c, n)})

\* runFlagActions(ctx, cmd, cmd.appliedFlags): the actions run in order and
\* the first error ends the loop and is returned as it is
RunFlagActions ==
  /\ At("flagactions")
  /\ LET c   == Top.cmd
         ran == actionable(c)
     IN  \E k \in 0..Len(ran) :
           /\ log' = log \o [i \in 1..(IF k = 0 THEN Len(ran) ELSE k) |->
                               Event("FlagAction", c,
                                     IF i = k THEN Err("FlagAction", c) ELSE NoErr,
                                     ran[i].Name)]
           /\ stack' = SetTop(
                IF k # 0 THEN [Top EXCEPT !.deferErr = Err("FlagAction", c),
                                          !.pc = "defers"]
                         ELSE [Top EXCEPT !.pc = "resolve"])
  /\ UNCHANGED <<sliceVars, userVars, disableSliceFlagSeparator, cfg, parent, flagSet, appliedFlags, isInError,
                 didSetupDefaults, hasBeenSet, flagValue, result>>

\* Command.argsWithDefaultCommand
argsWithDefaultCommand(c, oldArgs) ==
  IF cfg.DefaultCommand[c] # "" THEN <<cfg.DefaultCommand[c]>> \o oldArgs
                                ELSE oldArgs

\* The sub-command resolution of Run.  Gives the command to run, NIL when
\* the command's own Action is to run, and "panic" when the code
\* dereferences the nil result of looking up an unknown default command.
resolve(c, args) ==
  IF args # <<>> THEN
    LET name   == args[1]
        subCmd == Command(c, name)
    IN  IF subCmd # NIL THEN subCmd
        ELSE
          LET hasDefault == cfg.DefaultCommand[c] # ""
              isFlagName == name \in FlagNames(c)
              dc         == Command(c, cfg.DefaultCommand[c])
          IN  IF hasDefault /\ dc = NIL THEN "panic"
              ELSE
                LET defaultHasSubcommands == hasDefault /\ Len(Commands(dc)) > 0
                    isDefaultSubcommand ==
                      hasDefault /\ \E i \in 1..Len(Commands(dc)) :
                                      name \in Range(Names(Commands(dc)[i]))
                    argsWithDefault == argsWithDefaultCommand(c, args)
                IN  IF (isFlagName \/ (hasDefault /\ defaultHasSubcommands
                                                  /\ isDefaultSubcommand))
                       /\ args # argsWithDefault
                      THEN Command(c, argsWithDefault[1])
                      ELSE NIL
  ELSE IF parent[c] = NIL /\ cfg.DefaultCommand[c] # ""
    THEN LET dc == Command(c, cfg.DefaultCommand[c]) IN
         IF dc # c THEN dc ELSE NIL
  ELSE NIL

\* Run from the resolution of the sub-command to the call of its Run, with
\* cmd.Args().Slice() as its arguments and this command in the context
Resolve ==
  /\ At("resolve")
  /\ LET c      == Top.cmd
         subCmd == resolve(c, Top.args)
     IN  stack' =
           IF subCmd = "panic" THEN SetTop([Top EXCEPT !.pc = "panic"])
           ELSE IF subCmd # NIL
             THEN Append(SetTop([Top EXCEPT !.pc = "called"]),
                         Frame(subCmd, Args(c), c))
           ELSE SetTop([Top EXCEPT !.pc = "action"])
  /\ UNCHANGED <<sliceVars, userVars, disableSliceFlagSeparator, cfg, parent, flagSet, appliedFlags, isInError,
                 didSetupDefaults, hasBeenSet, flagValue, log, result>>

\* cmd.Action, and the hand-over of its error to handleExitCoder
RunAction ==
  /\ At("action")
  /\ LET c == Top.cmd IN
     \E r \in HookResults(c, "Action") :
       /\ log' = log \o <<Event("Action", c, r, "")>>
                     \o (IF r # NoErr THEN handleExitCoder(c, r) ELSE <<>>)
       /\ stack' = SetTop([Top EXCEPT !.deferErr = r, !.pc = "defers"])
  /\ UNCHANGED <<sliceVars, userVars, disableSliceFlagSeparator, cfg, parent, flagSet, appliedFlags, isInError,
                 didSetupDefaults, hasBeenSet, flagValue, result>>

\* the deferred function of Run: After, whose error goes to handleExitCoder
\* and is combined with the error Run is returning
Deferred ==
  /\ At("defers")
  /\ LET c == Top.cmd IN
     \E r \in (IF Top.after THEN HookResults(c, "After") ELSE {NoErr}) :
       /\ log' = log \o (IF Top.after THEN <<Event("After", c, r, "")>> ELSE <<>>)
                     \o (IF r # NoErr THEN handleExitCoder(c, r) ELSE <<>>)
       /\ stack' = SetTop([Top EXCEPT
                             !.deferErr = IF r = NoErr THEN @
                                          ELSE IF @ # NoErr THEN newMultiError(@, r)
                                          ELSE r,
                             !.pc = "ret"])
  /\ UNCHANGED <<sliceVars, userVars, disableSliceFlagSeparator, cfg, parent, flagSet, appliedFlags, isInError,
                 didSetupDefaults, hasBeenSet, flagValue, result>>

\* Run returns: to the Run that called it, which returns the same value
\* after its own deferred function, or to the caller of the outermost Run
Return ==
  /\ At("ret")
  /\ stack' = IF Len(stack) = 1 THEN <<>>
              ELSE [SubSeq(stack, 1, Len(stack) - 1) EXCEPT
                      ![Len(stack) - 1].deferErr = Top.deferErr,
                      ![Len(stack) - 1].pc = "defers"]
  /\ result' = IF Len(stack) = 1 THEN [done |-> TRUE, err |-> Top.deferErr]
                                  ELSE result
  /\ UNCHANGED <<sliceVars, userVars, disableSliceFlagSeparator, cfg, parent, flagSet, appliedFlags, isInError,
                 didSetupDefaults, hasBeenSet, flagValue, log>>

(* --------------------------- configurations ---------------------------- *)
Flag(owner, name, aliases, required, persistent, sourced, action) ==
  [Owner |-> owner, Name |-> name, Aliases |-> aliases, Required |-> required,
   Persistent |-> persistent, Sourced |-> sourced, Action |-> action]

\* the argument lists over the given tokens: a token after "-u", which no
\* command defines, is never read
ArgLists(tokens) ==
  {a \in SeqsUpTo(tokens, MaxArgs) :
     \A i \in 1..Len(a) : a[i] = "-u" => i = Len(a)}

\* the tree app -> sub -> leaf
Chain == [c \in Cmds |-> CASE c = "app" -> <<"sub">> [] c = "sub" -> <<"leaf">>
                           [] OTHER -> <<>>]

\* no slice flag is declared
NoSliceFlag ==
  /\ sliceFlag = [Value |-> <<>>, Sources |-> <<>>, Destination |-> FALSE]
  /\ mem = [p \in {"dest", "new", "tmp"} |-> <<>>]
  /\ nilSlices = {}
  /\ value = [nil |-> TRUE, slice |-> "new", hasBeenSet |-> FALSE]
  /\ occurrences = <<>>
  /\ peer = [nil |-> TRUE, slice |-> "new", hasBeenSet |-> FALSE]
  /\ failed = ""

\* no integer cell is in use
NoNumber ==
  /\ number = [kind |-> "", v |-> 0]
  /\ literal = <<>>
  /\ sets = <<>>

\* no lookup has been made
NoAccess == [op |-> "", cmd |-> "", name |-> "", value |-> <<>>,
             isSet |-> FALSE, count |-> 0, err |-> ""]

\* the state in which the application calls Run of the root with osArgs and
\* a context that carries the command ctx, or none
StartWith(osArgs, ctx) ==
  /\ stack = <<Frame("app", osArgs, ctx)>>
  /\ parent = [c \in Cmds |-> NIL]
  /\ flagSet = [c \in Cmds |-> NilFlagSet]
  /\ appliedFlags = [c \in Cmds |-> <<>>]
  /\ isInError = [c \in Cmds |-> FALSE]
  /\ didSetupDefaults = [c \in Cmds |-> FALSE]
  /\ hasBeenSet = {}
  /\ flagValue = <<>>
  /\ log = <<>>
  /\ result = [done |-> FALSE, err |-> NoErr]
  /\ argv = osArgs
  /\ history = <<>>
  /\ access = NoAccess
  /\ disableSliceFlagSeparator = FALSE
  /\ NoSliceFlag
  /\ NoNumber

\* the application calls Run of the root with a context that carries no command
Start(osArgs) == StartWith(osArgs, NIL)

\* The callbacks: Before, After and OnUsageError are each declared on every
\* command or on none, and ExitErrHandler on no command, on the root only,
\* on the other commands only, or on all.
HookChoices ==
  {(B \X {"Before"}) \cup (A \X {"After"}) \cup (U \X {"OnUsageError"})
     \cup (E \X {"ExitErrHandler"}) :
     B \in {{}, Cmds}, A \in {{}, Cmds}, U \in {{}, Cmds},
     E \in {{}, {"app"}, {"sub", "leaf"}, Cmds}}

\* Every command declares a flag a that has an Action.  In the strict
\* declarations the flag is required and the command has a required group of
\* two options, g and h.
HookFlags(c, strict) ==
  <<Flag(c, "a", <<>>, strict, FALSE, FALSE, TRUE)>>

HookGroups(c, strict) ==
  IF strict
    THEN <<[Flags |-> << <<Flag(c, "g", <<>>, FALSE, FALSE, FALSE, FALSE)>>,
                         <<Flag(c, "h", <<>>, FALSE, FALSE, FALSE, FALSE)>> >>,
            Required |-> TRUE]>>
    ELSE <<>>

Init ==
  /\ \E hooks \in HookChoices, strict \in BOOLEAN :
       cfg = [Commands |-> Chain,
              hooks |-> hooks,
              Flags |-> [c \in Cmds |-> HookFlags(c, strict)],
              MutuallyExclusiveFlags |-> [c \in Cmds |-> HookGroups(c, strict)],
              DefaultCommand |-> [c \in Cmds |-> ""],
              SkipFlagParsing |-> {},
              DisableSliceFlagSeparator |-> {}]
  /\ \E a \in ArgLists({"-a", "-g", "-h", "-u", "sub", "leaf"}) :
       Start(<<"app">> \o a)

Next ==
  \/ Setup
  \/ ParseFlags
  \/ UsageError
  \/ DeferAfter
  \/ CheckRequired
  \/ CheckGroups
  \/ RunBefore
  \/ RunFlagActions
  \/ Resolve
  \/ RunAction
  \/ Deferred
  \/ Return

Spec == Init /\ [][Next]_vars

(* ------------------- declarations rich in flags ------------------------ *)
\* Every command declares the flags a (with the alias A), b and g, in that
\* order; the flags in req are required, and a value source supplies the
\* value of the flags in src.  No callback is declared.
ManyFlags(c, req, src) ==
  <<Flag(c, "a", <<"A">>, "a" \in req, FALSE, "a" \in src, FALSE),
    Flag(c, "b", <<>>, "b" \in req, FALSE, "b" \in src, TRUE),
    Flag(c, "g", <<>>, "g" \in req, FALSE, "g" \in src, FALSE)>>

InitFlags ==
  /\ \E req \in SUBSET {"a", "b", "g"}, src \in SUBSET {"b", "g"} :
       cfg = [Commands |-> Chain,
              hooks |-> {},
              Flags |-> [c \in Cmds |-> ManyFlags(c, req, src)],
              MutuallyExclusiveFlags |-> [c \in Cmds |-> <<>>],
              DefaultCommand |-> [c \in Cmds |-> ""],
              SkipFlagParsing |-> {},
              DisableSliceFlagSeparator |-> {}]
  /\ \E a \in ArgLists({"-a", "-A", "-b", "-g", "-u", "sub"}) :
       Start(<<"app">> \o a)

SpecFlags == InitFlags /\ [][Next]_vars

(* ---------------- declarations with persistent flags ------------------- *)
\* app declares the flag a, with the alias A, persistent or not, with a value
\* source or without; sub declares no flag, or a flag of the same names,
\* persistent or not; leaf declares none.
TreeFlags(c, pa, sa, mode) ==
  CASE c = "app" -> <<Flag("app", "a", <<"A">>, FALSE, pa, sa, FALSE)>>
    [] c = "sub" -> IF mode = "none" THEN <<>>
                    ELSE <<Flag("sub", "a", <<"A">>, FALSE, mode = "persistent",
                                FALSE, FALSE)>>
    [] OTHER -> <<>>

\* app has a group of one option, the flag g, whose value a source supplies
TreeGroups(c) ==
  IF c = "app"
    THEN <<[Flags |-> << <<Flag("app", "g", <<>>, FALSE, FALSE, TRUE, FALSE)>> >>,
            Required |-> FALSE]>>
    ELSE <<>>

InitTree ==
  /\ \E pa \in BOOLEAN, sa \in BOOLEAN,
        mode \in {"none", "local", "persistent"} :
       cfg = [Commands |-> Chain,
              hooks |-> {},
              Flags |-> [c \in Cmds |-> TreeFlags(c, pa, sa, mode)],
              MutuallyExclusiveFlags |-> [c \in Cmds |-> TreeGroups(c)],
              DefaultCommand |-> [c \in Cmds |-> ""],
              SkipFlagParsing |-> {},
              DisableSliceFlagSeparator |-> {}]
  /\ \E a \in ArgLists({"-a", "-A", "sub", "leaf"}) :
       Start(<<"app">> \o a)

SpecTree == InitTree /\ [][Next]_vars

(* ------------------ declarations with default commands ----------------- *)
\* app declares the flag a, and sub and leaf declare none.  app has no
\* DefaultCommand, or names its child sub, or a command it has no child of;
\* sub has no DefaultCommand or names its child leaf.
DefaultFlags(c) ==
  IF c = "app" THEN <<Flag("app", "a", <<>>, FALSE, FALSE, FALSE, TRUE)>>
               ELSE <<>>

DefaultCommands(tokens) ==
  /\ \E da \in {"", "sub", "nope"}, ds \in {"", "leaf"} :
       cfg = [Commands |-> Chain,
              hooks |-> {},
              Flags |-> [c \in Cmds |-> DefaultFlags(c)],
              MutuallyExclusiveFlags |-> [c \in Cmds |-> <<>>],
              DefaultCommand |-> [c \in Cmds |->
                                    CASE c = "app" -> da [] c = "sub" -> ds
                                      [] OTHER -> ""],
              SkipFlagParsing |-> {},
              DisableSliceFlagSeparator |-> {}]
  /\ \E a \in ArgLists(tokens) :
       Start(<<"app">> \o a)

\* the argument x is no name of a flag or of a command
InitDefault == DefaultCommands({"-a", "a", "sub", "leaf", "x"})

SpecDefault == InitDefault /\ [][Next]_vars

\* Run is a sequence of steps each of which is taken once it can be
InitDefaultLive == DefaultCommands({"-a", "a", "sub", "leaf"})

SpecDefaultLive == InitDefaultLive /\ [][Next]_vars /\ WF_vars(Next)

(* --------------------- lookups by the application ---------------------- *)
\* sub declares the flag a, and any of the commands may declare an
\* InvalidFlagAccessHandler
InitAccess ==
  /\ \E H \in SUBSET Cmds :
       cfg = [Commands |-> Chain,
              hooks |-> H \X {"InvalidFlagAccessHandler"},
              Flags |-> [c \in Cmds |->
                           IF c = "sub"
                             THEN <<Flag("sub", "a", <<>>, FALSE, FALSE, FALSE, FALSE)>>
                             ELSE <<>>],
              MutuallyExclusiveFlags |-> [c \in Cmds |-> <<>>],
              DefaultCommand |-> [c \in Cmds |-> ""],
              SkipFlagParsing |-> {},
              DisableSliceFlagSeparator |-> {}]
  /\ \E a \in ArgLists({"-a", "sub", "leaf"}) :
       Start(<<"app">> \o a)

\* the names the application looks up: zz is the name of no flag
LookupNames == {"a", "zz"}

\* After Run has returned, the application calls Value, IsSet, Count or
\* Set(name, "true") of one of the commands.  Each begins with lookupFlagSet,
\* which calls onInvalidFlag when it finds no flag set; Set of a name that
\* was found sets the flag in the flag set found.
Access ==
  /\ result.done /\ access.op = ""
  /\ \E c \in Cmds, name \in LookupNames, op \in {"Value", "IsSet", "Count", "Set"} :
       LET fs == lookupFlagSet(c, name) IN
         /\ log' = log \o (IF fs = NIL THEN onInvalidFlag(c, name) ELSE <<>>)
         /\ access' = [op |-> op, cmd |-> c, name |-> name,
                       value |-> IF op = "Value" THEN CommandValue(c, name) ELSE <<>>,
                       isSet |-> op = "IsSet" /\ IsSet(c, name),
                       count |-> IF op = "Count" THEN Count(c, name) ELSE 0,
                       err   |-> IF op = "Set" /\ fs = NIL THEN "no such flag" ELSE ""]
         /\ IF op = "Set" /\ fs # NIL
              THEN /\ flagSet' = [flagSet EXCEPT ![fs].actual = @ \cup {name}]
                   /\ flagValue' =
                        [flagValue EXCEPT ![FlagId(flagSet[fs].formal[name])] =
                           [value |-> TRUE, count |-> @.count + 1]]
              ELSE UNCHANGED <<flagSet, flagValue>>
  /\ UNCHANGED <<sliceVars, numVars, argv, history, disableSliceFlagSeparator, cfg, stack, parent,
                 appliedFlags, isInError, didSetupDefaults, hasBeenSet, result>>

NextAccess ==
  \/ Next
  \/ Access

SpecAccess == InitAccess /\ [][NextAccess]_vars

(* ------------------------- Run, and Run again -------------------------- *)
\* every command declares the flag a, which has an Action, and no callback
\* but its own Action
InitTwice ==
  /\ cfg = [Commands |-> Chain,
            hooks |-> {},
            Flags |-> [c \in Cmds |-> HookFlags(c, FALSE)],
            MutuallyExclusiveFlags |-> [c \in Cmds |-> <<>>],
            DefaultCommand |-> [c \in Cmds |-> ""],
            SkipFlagParsing |-> {},
            DisableSliceFlagSeparator |-> {}]
  /\ \E a \in ArgLists({"-a", "-u", "sub", "leaf"}) :
       Start(<<"app">> \o a)

\* Run of the root has returned, and the application calls it a second time
\* with the same arguments.  What the first Run left in the commands stays:
\* parent, flagSet, appliedFlags, isInError, didSetupDefaults, and the flags.
RunAgain ==
  /\ result.done /\ history = <<>>
  /\ history' = <<[log |-> log, result |-> result]>>
  /\ log' = <<>>
  /\ result' = [done |-> FALSE, err |-> NoErr]
  /\ stack' = <<Frame("app", argv, NIL)>>
  /\ UNCHANGED <<sliceVars, numVars, argv, access, disableSliceFlagSeparator, cfg, parent, flagSet,
                 appliedFlags, isInError, didSetupDefaults, hasBeenSet, flagValue>>

NextTwice ==
  \/ Next
  \/ RunAgain

SpecTwice == InitTwice /\ [][NextTwice]_vars

(* ------------------- a context that carries a command ----------------- *)
\* two trees: app with its child sub, and leaf, the root of another
TwoTrees == [c \in Cmds |-> IF c = "app" THEN <<"sub">> ELSE <<>>]

\* The application calls Run of app with a context that carries no command,
\* or with one that carries leaf, as the context does that an earlier Run of
\* leaf gave to its callbacks.
InitContext ==
  /\ \E hooks \in HookChoices :
       cfg = [Commands |-> TwoTrees,
              hooks |-> hooks,
              Flags |-> [c \in Cmds |-> HookFlags(c, FALSE)],
              MutuallyExclusiveFlags |-> [c \in Cmds |-> <<>>],
              DefaultCommand |-> [c \in Cmds |-> ""],
              SkipFlagParsing |-> {},
              DisableSliceFlagSeparator |-> {}]
  /\ \E a \in ArgLists({"-a", "-u", "sub"}), ctx \in {NIL, "leaf"} :
       StartWith(<<"app">> \o a, ctx)

SpecContext == InitContext /\ [][Next]_vars

(* ---------------------- commands that skip the parse ------------------- *)
\* Every command of the chain declares the flag a, whose Action would run,
\* and SkipFlagParsing is set on no command, on app, on sub, or on all.
InitSkip ==
  /\ \E skip \in {{}, {"app"}, {"sub"}, Cmds} :
       cfg = [Commands |-> Chain,
              hooks |-> {},
              Flags |-> [c \in Cmds |-> HookFlags(c, FALSE)],
              MutuallyExclusiveFlags |-> [c \in Cmds |-> <<>>],
              DefaultCommand |-> [c \in Cmds |-> ""],
              SkipFlagParsing |-> skip,
              DisableSliceFlagSeparator |-> {}]
  /\ \E a \in ArgLists({"-a", "-u", "sub", "leaf", "x"}) :
       Start(<<"app">> \o a)

SpecSkip == InitSkip /\ [][Next]_vars

(* ------------------ commands that disable the splitting ---------------- *)
\* Every command of the chain declares the flag a, and
\* DisableSliceFlagSeparator is true on no command, on app, on app and sub,
\* on sub, or on all.
InitSeparator ==
  /\ \E dis \in {{}, {"app"}, {"app", "sub"}, {"sub"}, Cmds} :
       cfg = [Commands |-> Chain,
              hooks |-> {},
              Flags |-> [c \in Cmds |-> HookFlags(c, FALSE)],
              MutuallyExclusiveFlags |-> [c \in Cmds |-> <<>>],
              DefaultCommand |-> [c \in Cmds |-> ""],
              SkipFlagParsing |-> {},
              DisableSliceFlagSeparator |-> dis]
  /\ \E a \in ArgLists({"-a", "-u", "sub", "leaf"}) :
       Start(<<"app">> \o a)

SpecSeparator == InitSeparator /\ [][Next]_vars

(* --------------------- the slice flag on its own ----------------------- *)
\* the most occurrences of the slice flag on one command line
MaxSets == 2

\* the values an occurrence may carry: "1", "2,3", " 4", "z", "1,z", "" and
\* the serialized form of [5]
Raws == {<<"1">>, <<"2", ",", "3">>, <<" ", "4">>, <<"z">>, <<"1", ",", "z">>,
         <<>>, <<slPfx, "[", "5", "]">>}

\* the values the environment may hold for the flag: "7", "8,9", "z"
EnvRaws == {<<"7">>, <<"8", ",", "9">>, <<"z">>}

\* the declared defaults
Defaults == {<<>>, <<10>>, <<10, 11>>}

\* no Run is in progress
NoRun ==
  /\ cfg = [Commands |-> [c \in Cmds |-> <<>>], hooks |-> {},
            Flags |-> [c \in Cmds |-> <<>>],
            MutuallyExclusiveFlags |-> [c \in Cmds |-> <<>>],
            DefaultCommand |-> [c \in Cmds |-> ""],
            SkipFlagParsing |-> {}, DisableSliceFlagSeparator |-> {}]
  /\ stack = <<>>
  /\ parent = [c \in Cmds |-> NIL]
  /\ flagSet = [c \in Cmds |-> NilFlagSet]
  /\ appliedFlags = [c \in Cmds |-> <<>>]
  /\ isInError = [c \in Cmds |-> FALSE]
  /\ didSetupDefaults = [c \in Cmds |-> FALSE]
  /\ hasBeenSet = {}
  /\ flagValue = <<>>
  /\ log = <<>>
  /\ result = [done |-> FALSE, err |-> NoErr]
  /\ argv = <<>>
  /\ history = <<>>
  /\ access = NoAccess

InitSlice ==
  /\ NoRun
  /\ NoNumber
  /\ disableSliceFlagSeparator \in BOOLEAN
  /\ \E d \in Defaults, src \in {<<>>} \cup {<<e>> : e \in EnvRaws},
        dst \in BOOLEAN :
       sliceFlag = [Value |-> d, Sources |-> src, Destination |-> dst]
  /\ mem = [p \in {"dest", "new", "tmp"} |-> IF p = "dest" THEN <<0>> ELSE <<>>]
  /\ nilSlices = {}
  /\ value = [nil |-> TRUE, slice |-> "new", hasBeenSet |-> FALSE]
  /\ occurrences = <<>>
  /\ peer = [nil |-> TRUE, slice |-> "new", hasBeenSet |-> FALSE]
  /\ failed = ""

\* the flag is applied, before the command line is parsed
ApplyFlag ==
  /\ value.nil /\ failed = ""
  /\ LET r == ApplyFlagBase(mem, sliceFlag) IN
       /\ mem' = r.mem
       /\ value' = r.cell
       /\ failed' = IF r.err THEN "Apply" ELSE ""
  /\ UNCHANGED <<runVars, userVars, disableSliceFlagSeparator, sliceFlag, nilSlices, occurrences, peer>>

\* an occurrence of the flag on the command line: the parse calls Set of
\* the flag's cell, and ends when Set returns an error
SetFlag ==
  /\ ~value.nil /\ failed = "" /\ Len(occurrences) < MaxSets
  /\ \E raw \in Raws :
       LET r == Set(mem, value, raw) IN
         /\ mem' = r.mem
         /\ value' = r.cell
         /\ occurrences' = Append(occurrences, raw)
         /\ failed' = IF r.panic THEN "panic" ELSE IF r.err THEN "Set" ELSE ""
  /\ UNCHANGED <<runVars, userVars, disableSliceFlagSeparator, sliceFlag, nilSlices, peer>>

NextSlice ==
  \/ ApplyFlag
  \/ SetFlag

SpecSlice == InitSlice /\ [][NextSlice]_vars

(* ------------- two slice cells and a serialized value ------------------ *)
\* NewSliceBase(defaults...): the cell points at its own argument list, which
\* is a nil slice when no default is given
NewSliceBase(m, defaults) ==
  [mem |-> [m EXCEPT !["peer"] = defaults],
   cell |-> [nil |-> FALSE, slice |-> "peer", hasBeenSet |-> FALSE],
   isNil |-> defaults = <<>>]

\* the zero SliceBase, whose slice pointer is nil
ZeroSliceBase == [nil |-> FALSE, slice |-> NIL, hasBeenSet |-> FALSE]

\* the elements that SetOne may add to the second cell
PeerElems == {6, 7}

\* The first cell is that of a declared slice flag; the second, peer, is made
\* by the application.  The []T variables are those of the flag, that of the
\* second cell and one that the decoder may allocate.
InitRoundTrip ==
  /\ NoRun
  /\ NoNumber
  /\ disableSliceFlagSeparator \in BOOLEAN
  /\ \E d \in Defaults, dst \in BOOLEAN :
       sliceFlag = [Value |-> d, Sources |-> <<>>, Destination |-> dst]
  /\ mem = [p \in {"dest", "new", "tmp", "peer", "heap"} |->
              IF p = "dest" THEN <<0>> ELSE <<>>]
  /\ nilSlices = {}
  /\ value = [nil |-> TRUE, slice |-> "new", hasBeenSet |-> FALSE]
  /\ occurrences = <<>>
  /\ peer = [nil |-> TRUE, slice |-> NIL, hasBeenSet |-> FALSE]
  /\ failed = ""

\* the application makes the second cell: a zero SliceBase, or one made by
\* NewSliceBase
NewPeer ==
  /\ peer.nil /\ failed = ""
  /\ \/ /\ peer' = ZeroSliceBase
        /\ UNCHANGED <<mem, nilSlices>>
     \/ \E d \in Defaults :
          LET r == NewSliceBase(mem, d) IN
            /\ peer' = r.cell
            /\ mem' = r.mem
            /\ nilSlices' = IF r.isNil THEN nilSlices \cup {"peer"} ELSE nilSlices
  /\ UNCHANGED <<runVars, userVars, disableSliceFlagSeparator, sliceFlag, value,
                 occurrences, failed>>

\* peer.SetOne(v), which faults on the zero SliceBase
SetOnePeer ==
  /\ ~peer.nil /\ failed = ""
  /\ ~peer.hasBeenSet \/ Len(Value(mem, peer)) < MaxSets
  /\ \E v \in PeerElems :
       IF peer.slice = NIL
         THEN /\ failed' = "panic"
              /\ UNCHANGED <<mem, nilSlices, peer>>
         ELSE LET r == SetOne(mem, peer, v) IN
                /\ mem' = r.mem
                /\ peer' = r.cell
                /\ nilSlices' = nilSlices \ {peer.slice}
                /\ UNCHANGED failed
  /\ UNCHANGED <<runVars, userVars, disableSliceFlagSeparator, sliceFlag, value,
                 occurrences>>

\* value.Set(peer.Serialize())
RoundTrip ==
  /\ ~value.nil /\ ~peer.nil /\ failed = "" /\ Len(occurrences) <= MaxSets
  /\ LET raw == Serialize(mem, peer)
         r   == Set(mem, value, raw)
     IN  /\ mem' = r.mem
         /\ value' = r.cell
         /\ occurrences' = Append(occurrences, raw)
         /\ failed' = IF r.panic THEN "panic" ELSE IF r.err THEN "Set" ELSE ""
  /\ UNCHANGED <<runVars, userVars, disableSliceFlagSeparator, sliceFlag, nilSlices, peer>>

\* value.Get()
GetValue ==
  /\ ~value.nil /\ failed = ""
  /\ failed' = IF Get(mem, value).panic THEN "panic" ELSE failed
  /\ UNCHANGED <<runVars, userVars, disableSliceFlagSeparator, sliceFlag, mem,
                 nilSlices, value, occurrences, peer>>

NextRoundTrip ==
  \/ ApplyFlag
  \/ SetFlag
  \/ NewPeer
  \/ SetOnePeer
  \/ RoundTrip
  \/ GetValue

SpecRoundTrip == InitRoundTrip /\ [][NextRoundTrip]_vars

(* ------------- the slice flag and the caller's default ----------------- *)
\* As InitSlice, with the []T variable of the caller that the flag's Value
\* was declared from, which holds the declared default
InitCreate ==
  /\ NoRun
  /\ NoNumber
  /\ disableSliceFlagSeparator \in BOOLEAN
  /\ \E d \in Defaults, src \in {<<>>} \cup {<<e>> : e \in EnvRaws},
        dst \in BOOLEAN :
       /\ sliceFlag = [Value |-> d, Sources |-> src, Destination |-> dst]
       /\ mem = [p \in {"dest", "new", "tmp", "val"} |->
                   CASE p = "dest" -> <<0>> [] p = "val" -> d [] OTHER -> <<>>]
  /\ nilSlices = {}
  /\ value = [nil |-> TRUE, slice |-> "new", hasBeenSet |-> FALSE]
  /\ occurrences = <<>>
  /\ peer = [nil |-> TRUE, slice |-> "new", hasBeenSet |-> FALSE]
  /\ failed = ""

\* the application calls SetOne of the flag's cell
SetOneFlag ==
  /\ ~value.nil /\ failed = ""
  /\ ~value.hasBeenSet \/ Len(Value(mem, value)) <= MaxSets
  /\ \E v \in PeerElems :
       IF value.slice = NIL
         THEN /\ failed' = "panic"
              /\ UNCHANGED <<mem, value>>
         ELSE LET r == SetOne(mem, value, v) IN
                /\ mem' = r.mem
                /\ value' = r.cell
                /\ failed' = failed
  /\ UNCHANGED <<runVars, userVars, disableSliceFlagSeparator, sliceFlag, nilSlices,
                 occurrences, peer>>

NextCreate ==
  \/ ApplyFlag
  \/ SetFlag
  \/ SetOneFlag

SpecCreate == InitCreate /\ [][NextCreate]_vars

(* --------------------------- integer cells ----------------------------- *)
\* the characters of the literals
LitChars == {"0", "1", "2", "3", "5", "6", "7", "8", "x", "f", "-"}

Literals == SeqsUpTo(LitChars, MaxLit)

\* intValue.Set and uint64Value.Set: the cell takes the parsed number, and
\* keeps what it has when the parse returns an error
SetNumber(n, s) ==
  LET r == IF n.kind = "int" THEN ParseInt(s) ELSE ParseUint(s) IN
  [cell |-> IF r.ok THEN [n EXCEPT !.v = r.val] ELSE n, err |-> ~r.ok]

\* intValue.Get and uint64Value.Get
GetNumber(n) == n.v

\* intValue.String: strconv.Itoa; uint64Value.String: strconv.FormatUint in
\* base 10
String(n) == FormatInt(n.v)

\* a cell of either kind holds a number, and the application has a literal
InitNumber ==
  /\ NoRun
  /\ NoSliceFlag
  /\ disableSliceFlagSeparator = FALSE
  /\ \E k \in {"int", "uint64"}, v \in {0, 3} : number = [kind |-> k, v |-> v]
  /\ literal \in Literals
  /\ sets = <<>>

\* cell.Set(literal)
SetLiteral ==
  /\ sets = <<>>
  /\ LET r == SetNumber(number, literal) IN
       /\ number' = r.cell
       /\ sets' = <<[s |-> literal, err |-> r.err, before |-> number.v]>>
  /\ UNCHANGED <<runVars, sliceVars, argv, history, access, literal,
                 disableSliceFlagSeparator>>

\* cell.Set(cell.String())
SetString ==
  /\ Len(sets) = 1
  /\ LET r == SetNumber(number, String(number)) IN
       /\ number' = r.cell
       /\ sets' = Append(sets, [s |-> String(number), err |-> r.err,
                                before |-> number.v])
  /\ UNCHANGED <<runVars, sliceVars, argv, history, access, literal,
                 disableSliceFlagSeparator>>

NextNumber ==
  \/ SetLiteral
  \/ SetString

SpecNumber == InitNumber /\ [][NextNumber]_vars

(* ------------------------ claims: slice flags -------------------------- *)
\* the elements a value that is not serialized denotes: its tokens, trimmed
\* and read as integers
Elems(raw) ==
  LET toks == flagSplitMultiValues(raw) IN
  [k \in 1..Len(toks) |-> ParseInt(TrimSpace(toks[k])).val]

\* the elements of a sequence of such values, in order
AllElems(raws) == Concat([k \in 1..Len(raws) |-> Elems(raws[k])])

Plain(raws) == \A k \in 1..Len(raws) : ~HasPrefix(raws[k])

\* the flag has been applied and no step has returned an error
Applied == ~value.nil /\ failed = ""

\* C1: for a collection flag with default D, source value E and command line
\* occurrences C (none of them serialized), the resolved value, and the
\* Destination when one is bound, is the elements of C alone when C is not
\* empty, the elements of E alone when C is empty and E is present, and D
\* when neither is present.
C1_SourcePrecedence ==
  (Applied /\ Plain(occurrences)) =>
    LET want == IF occurrences # <<>> THEN AllElems(occurrences)
                ELSE IF sliceFlag.Sources # <<>> THEN Elems(sliceFlag.Sources[1])
                ELSE sliceFlag.Value
    IN  /\ Value(mem, value) = want
        /\ sliceFlag.Destination => mem["dest"] = want

\* C1, reached: a default, a source value and two occurrences, with a
\* Destination that holds the elements of the occurrences alone
C1_Witness ==
  /\ Applied /\ Plain(occurrences) /\ Len(occurrences) = 2
  /\ sliceFlag.Value # <<>> /\ sliceFlag.Sources # <<>> /\ sliceFlag.Destination
  /\ mem["dest"] = AllElems(occurrences)
  /\ Len(mem["dest"]) >= 3

\* C2: for a cell that Create made with default D, a successful Set of a
\* value that is not serialized leaves exactly the elements of that value
\* when it is the first Set, and the former contents followed by those
\* elements when it is a later one; before any Set the contents are D.
C2_FirstSetClearsLaterSetsAppend ==
  /\ []((Applied /\ occurrences = <<>> /\ sliceFlag.Sources = <<>>)
          => Value(mem, value) = sliceFlag.Value)
  /\ [][(/\ Len(occurrences') = Len(occurrences) + 1
         /\ failed' = ""
         /\ ~HasPrefix(occurrences'[Len(occurrences')]))
        => Value(mem', value') =
             (IF occurrences = <<>> THEN <<>> ELSE Value(mem, value))
               \o Elems(occurrences'[Len(occurrences')])]_vars

\* C2, reached: a cell created with a default of two elements holds, after
\* two Sets, the elements of the two values and nothing of the default
C2_Witness ==
  /\ Applied /\ Plain(occurrences) /\ Len(occurrences) = 2
  /\ sliceFlag.Sources = <<>> /\ Len(sliceFlag.Value) = 2
  /\ Value(mem, value) = AllElems(occurrences)
  /\ Range(sliceFlag.Value) \cap Range(Value(mem, value)) = {}

(* ---------------------- claims: hooks and errors ----------------------- *)
\* the positions in the log of the calls of callback e of command c, and of
\* those that returned an error
Idx(e, c) == {i \in 1..Len(log) : log[i].e = e /\ log[i].cmd = c}
Failing(e, c) == {i \in Idx(e, c) : log[i].err # NoErr}

\* the calls of an exit handler, of any command, with the error err
Handled(err) ==
  {i \in 1..Len(log) :
     log[i].e \in {"ExitErrHandler", "HandleExitCoder"} /\ log[i].err = err}

\* Run of c was called; it was called and has come to its return
Ran(c) == Idx("Run", c) # {}
Returned(c) ==
  Ran(c) /\ \A k \in 1..Len(stack) : stack[k].cmd = c => stack[k].pc = "ret"

\* every position in I is before every position in J
Precede(I, J) == \A i \in I, j \in J : i < j

\* C3: when the flags of a command parse and its checks pass so that its
\* Action runs, its Before, Action and After run in that order, each at most
\* once, Before having run if the command has one, and After runs, if the
\* command has one, whether Action returned nil or an error.
C3_HooksInOrder ==
  \A c \in Cmds :
    /\ \A e \in {"Before", "Action", "After"} : Cardinality(Idx(e, c)) <= 1
    /\ Precede(Idx("Before", c), Idx("Action", c))
    /\ Precede(Idx("Action", c), Idx("After", c))
    /\ Precede(Idx("Before", c), Idx("After", c))
    /\ (Idx("Action", c) # {} /\ Has(c, "Before")) => Idx("Before", c) # {}
    /\ (Idx("Action", c) # {} /\ Has(c, "After") /\ Returned(c))
         => Idx("After", c) # {}

\* C3, reached: the Action of sub returned an error between its Before and
\* its After
C3_Witness ==
  /\ Failing("Action", "sub") # {}
  /\ Idx("Before", "sub") # {}
  /\ Idx("After", "sub") # {}

\* C4: when the Before of a command returned an error, none of its flag
\* actions, nor its Action, nor the Run of any of its sub-commands is
\* executed, and its Run and the outermost Run return an error.
C4_BeforeErrorStops ==
  \A c \in Cmds :
    Failing("Before", c) # {} =>
      /\ Idx("FlagAction", c) = {}
      /\ Idx("Action", c) = {}
      /\ \A d \in Range(Commands(c)) : ~Ran(d)
      /\ \A k \in 1..Len(stack) :
           (stack[k].cmd = c /\ stack[k].pc = "ret") => stack[k].deferErr # NoErr
      /\ result.done => result.err # NoErr

\* C4, reached: Run has returned after the Before of app failed on a command
\* line that sets flag a, whose Action would run, and names the command sub
C4_Witness ==
  /\ result.done
  /\ Failing("Before", "app") # {}
  /\ "a" \in flagSet["app"].actual
  /\ Args("app") # <<>> /\ Args("app")[1] = "sub"

\* C5, as the specification states it: when the Before of a command returned
\* an error, the After of that command does not run.
C5_NoAfterOnBeforeError ==
  \A c \in Cmds : Failing("Before", c) # {} => Idx("After", c) = {}

\* C5, as the code has it: After is deferred before Before is called, so
\* when the Before of a command that has an After returned an error, After
\* runs exactly once, after Before, before Run returns.
C5_AfterRunsOnBeforeError ==
  \A c \in Cmds :
    (Failing("Before", c) # {} /\ Has(c, "After")) =>
      /\ Precede(Idx("Before", c), Idx("After", c))
      /\ Cardinality(Idx("After", c)) <= 1
      /\ Returned(c) => Cardinality(Idx("After", c)) = 1

\* C5, reached: Run of sub has come to its return, its Before having failed
\* and its After having run
C5_Witness ==
  /\ Returned("sub")
  /\ Failing("Before", "sub") # {}
  /\ Idx("After", "sub") # {}

\* C6, as the specification states it: when the Action of a command that
\* has an After returned an error, every call of an exit handler with that
\* error comes after the After of the command has run, and there is exactly
\* one such call once Run has returned.
C6_HandlerAfterAfter ==
  \A c \in Cmds : \A j \in Failing("Action", c) :
    /\ Has(c, "After") =>
         \A h \in Handled(log[j].err) : \E k \in Idx("After", c) : k < h
    /\ Returned(c) => Cardinality(Handled(log[j].err)) = 1

\* C6, as the code has it: the error of the Action goes to the exit handler
\* of the root at once, before the deferred After runs, and exactly once:
\* the call of the handler follows the call of the Action in the log, it is
\* a call of the root's handler, and After comes later.
C6_HandlerBeforeAfter ==
  \A c \in Cmds : \A j \in Failing("Action", c) :
    /\ Handled(log[j].err) = {j + 1}
    /\ log[j + 1].cmd = "app"
    /\ log[j + 1].e = IF Has("app", "ExitErrHandler") THEN "ExitErrHandler"
                                                      ELSE "HandleExitCoder"
    /\ \A k \in Idx("After", c) : k > j + 1
    /\ (Has(c, "After") /\ Returned(c)) => Idx("After", c) # {}

\* C6, reached: the outermost Run has returned; the Action of sub failed,
\* its error went to the ExitErrHandler of app, and the After of sub ran
C6_Witness ==
  /\ result.done
  /\ Failing("Action", "sub") # {}
  /\ Idx("After", "sub") # {}
  /\ \E h \in Handled(Err("Action", "sub")) : log[h].e = "ExitErrHandler"

\* the kinds of error that C7 lists
Routed == {"Parse", "Required", "Group", "Action"}

\* C7, as the specification states it: every error that ends a Run (a flag
\* parse error, a required flag error, a group error, an Action error) is
\* passed to the exit handler of the root, and no ExitErrHandler of another
\* command is ever called.
C7_AllErrorsToRootHandler ==
  /\ \A i \in 1..Len(log) : log[i].e = "ExitErrHandler" => log[i].cmd = "app"
  /\ \A k \in 1..Len(stack) :
       (stack[k].pc = "ret" /\ stack[k].deferErr # NoErr
          /\ stack[k].deferErr[1].kind \in Routed
          /\ stack[k].deferErr[1].cmd = stack[k].cmd)
         => \E h \in Handled(<<stack[k].deferErr[1]>>) : log[h].cmd = "app"

(* ------------------- claims: the checks before Before ------------------ *)
\* What the command line and the value sources say, read off the arguments
\* of a Run without the flag set: the names of the flag tokens that lead the
\* arguments,
RECURSIVE Leading(_)
Leading(toks) ==
  IF toks = <<>> \/ Head(toks) \notin DOMAIN FlagTok THEN {}
  ELSE {FlagTok[Head(toks)]} \cup Leading(Tail(toks))

Given(f) == Leading(ArgsTail(f.osArgs))

\* the names a command may be given: those of its flags and of the
\* persistent flags of its ancestors,
PersistentNames(c) ==
  UNION {Range(fNames(Flags(c)[i])) :
           i \in {j \in 1..Len(Flags(c)) : Flags(c)[j].Persistent}}

Declared(c) ==
  UNION {Range(fNames(allFlags(c)[i])) : i \in 1..Len(allFlags(c))}
  \cup UNION {PersistentNames(Lineage(c)[n]) : n \in 2..Len(Lineage(c))}

\* whether the parse of the frame's arguments fails, whether a flag has a
\* value from the command line or a source,
ParseFails(f) == ~(Given(f) \subseteq Declared(f.cmd))

Supplied(f, fl) == fl.Sourced \/ Range(fNames(fl)) \cap Given(f) # {}

\* the positions in Flags of the required flags that have none, and whether
\* some group of the command is violated.
RequiredMissing(f) ==
  {i \in 1..Len(Flags(f.cmd)) :
     Flags(f.cmd)[i].Required /\ ~Supplied(f, Flags(f.cmd)[i])}

GroupViolated(f) ==
  \E g \in 1..Len(MutuallyExclusiveFlags(f.cmd)) :
    LET grp  == MutuallyExclusiveFlags(f.cmd)[g]
        opts == {o \in 1..Len(grp.Flags) :
                   \E k \in 1..Len(grp.Flags[o]) : Supplied(f, grp.Flags[o][k])}
    IN  Cardinality(opts) > 1 \/ (opts = {} /\ grp.Required)

\* command c has run none of Before, a flag action, Action, a sub-command
NothingRan(c) ==
  /\ \A e \in {"Before", "FlagAction", "Action"} : Idx(e, c) = {}
  /\ \A d \in Range(Commands(c)) : ~Ran(d)

\* C8: when the flag parse of a command fails, none of its Before, flag
\* actions, Action and sub-commands runs; a command that has an OnUsageError
\* calls it exactly once and its Run returns exactly what the hook returned,
\* nil included; the Run of a command that has none returns the parse error.
C8_ParseErrorStops ==
  \A k \in 1..Len(stack) :
    LET f == stack[k]
        c == f.cmd
    IN  (ParseFails(f) /\ f.pc \notin {"setup", "parse"}) =>
          /\ NothingRan(c)
          /\ Idx("After", c) = {}
          /\ Cardinality(Idx("OnUsageError", c)) <= 1
          /\ f.pc = "ret" =>
               IF Has(c, "OnUsageError")
                 THEN /\ Idx("OnUsageError", c) # {}
                      /\ \A i \in Idx("OnUsageError", c) : f.deferErr = log[i].err
                 ELSE /\ Idx("OnUsageError", c) = {}
                      /\ f.deferErr = Err("Parse", c)

\* C8, reached: the parse of sub failed, its OnUsageError returned nil, and
\* its Run is about to return nil
C8_Witness ==
  /\ At("ret") /\ Top.cmd = "sub" /\ ParseFails(Top)
  /\ \E i \in Idx("OnUsageError", "sub") : log[i].err = NoErr
  /\ Top.deferErr = NoErr

\* C9: within a Run the checks and calls come in the order flag parse,
\* required flags, groups, Before, flag actions, sub-command or Action, and
\* a failing one prevents the later ones: Before comes before the flag
\* actions, which come before the Action and the Run of a sub-command, and
\* nothing follows a failing flag action; when a required flag is missing or
\* a group is violated none of them runs, and the error returned is the
\* required flag error when a required flag is missing, a group being
\* violated too or not, and the group error otherwise.
C9_StepsInOrder ==
  /\ \A c \in Cmds :
       /\ Precede(Idx("Before", c), Idx("FlagAction", c) \cup Idx("Action", c))
       /\ Precede(Idx("FlagAction", c), Idx("Action", c))
       /\ \A d \in Range(Commands(c)) :
            Precede(Idx("Before", c) \cup Idx("FlagAction", c), Idx("Run", d))
       /\ \A i \in Failing("FlagAction", c) :
            /\ \A j \in Idx("FlagAction", c) : j <= i
            /\ Idx("Action", c) = {}
            /\ \A d \in Range(Commands(c)) : ~Ran(d)
  /\ \A k \in 1..Len(stack) :
       LET f   == stack[k]
           c   == f.cmd
           req == RequiredMissing(f) # {}
           grp == GroupViolated(f)
           end == f.pc \in {"defers", "ret"}
       IN  (~ParseFails(f) /\ f.pc \notin {"setup", "parse"}) =>
             /\ (req \/ grp) => NothingRan(c)
             /\ (req /\ end) =>
                  /\ f.deferErr # NoErr
                  /\ f.deferErr[1].kind = "Required"
                  /\ \A n \in 1..Len(f.deferErr) : f.deferErr[n].kind # "Group"
             /\ (~req /\ grp /\ end) =>
                  /\ f.deferErr # NoErr
                  /\ f.deferErr[1].kind = "Group"

\* C9, reached: sub, which has a Before, lacks its required flag and
\* violates its group, and its Run is about to return the required flag error
C9_Witness ==
  /\ At("ret") /\ Top.cmd = "sub" /\ ~ParseFails(Top)
  /\ RequiredMissing(Top) # {} /\ GroupViolated(Top)
  /\ Has("sub", "Before")
  /\ Top.deferErr # NoErr /\ Top.deferErr[1].kind = "Required"

\* the required flags of the frame's command that have no value, each under
\* its last name, in the order of their declaration
ExpectedMissing(f) ==
  Pick([i \in 1..Len(Flags(f.cmd)) |->
          fNames(Flags(f.cmd)[i])[Len(fNames(Flags(f.cmd)[i]))]],
       RequiredMissing(f))

\* C10: checkRequiredFlags returns an error if and only if some flag of the
\* command's Flags is required and has a value neither from the command line,
\* under any of its names, nor from a value source; the error lists exactly
\* those flags, one entry each, in the order of their declaration.
C10_RequiredFlagsError ==
  \A k \in 1..Len(stack) :
    LET f   == stack[k]
        c   == f.cmd
        exp == ExpectedMissing(f)
    IN  ~ParseFails(f) =>
          /\ f.pc = "required" => checkRequiredFlags(c) = exp
          /\ f.pc \in {"groups", "before", "flagactions", "resolve", "action",
                        "called"} => exp = <<>>
          /\ (f.pc \in {"defers", "ret"} /\ exp # <<>>) =>
               /\ f.deferErr # NoErr
               /\ f.deferErr[1] = errRequiredFlags(c, exp)[1]
          /\ (f.pc \in {"defers", "ret"} /\ exp = <<>>) =>
               \A n \in 1..Len(f.deferErr) :
                 ~(f.deferErr[n].kind = "Required" /\ f.deferErr[n].cmd = c)

\* C10, reached: all three flags are required; app was given a under its
\* alias, b by its source and g; sub is given none, and its Run is about to
\* return the error that lists a, under its alias, and g, and not b, which
\* the source supplies
C10_Witness ==
  /\ At("ret") /\ Top.cmd = "sub"
  /\ "A" \in Given(stack[1])
  /\ \A i \in 1..3 : Flags("sub")[i].Required
  /\ Flags("sub")[2].Sourced
  /\ Top.deferErr = errRequiredFlags("sub", <<"A", "g">>)

(* ------------------ claims: flags along the lineage -------------------- *)
\* What the declarations and the command line say about the chain of active
\* Runs, root first, read off without the flag sets.  The names flags have:
FlagNameSet == {FlagTok[t] : t \in DOMAIN FlagTok}

\* the positions in the flags of c, group flags included, of those named n,
DeclaredAs(c, n) ==
  {i \in 1..Len(allFlags(c)) : n \in Range(fNames(allFlags(c)[i]))}

\* the frames below frame k whose command declares a persistent flag named n,
PersistentAbove(k, n) ==
  {j \in 1..(k - 1) :
     \E i \in 1..Len(Flags(stack[j].cmd)) :
       /\ Flags(stack[j].cmd)[i].Persistent
       /\ n \in Range(fNames(Flags(stack[j].cmd)[i]))}

\* the first persistent flag named n that command d declares,
PersistentFlag(d, n) ==
  Flags(d)[Min({i \in 1..Len(Flags(d)) :
                  Flags(d)[i].Persistent /\ n \in Range(fNames(Flags(d)[i]))})]

\* the flag that name n denotes for the command of frame k, as <<flag>>: its
\* own flag of that name, or else the persistent flag of that name of the
\* nearest ancestor that declares one; <<>> when there is none,
InEffect(k, n) ==
  IF DeclaredAs(stack[k].cmd, n) # {}
    THEN <<allFlags(stack[k].cmd)[Min(DeclaredAs(stack[k].cmd, n))]>>
  ELSE IF PersistentAbove(k, n) # {}
    THEN <<PersistentFlag(stack[Max(PersistentAbove(k, n))].cmd, n)>>
  ELSE <<>>

\* the frames that have parsed their arguments, and those that did so
\* without an error,
Parsed(k) == stack[k].pc \notin {"setup", "parse"}
ParsedOK(k) == Parsed(k) /\ ~ParseFails(stack[k])

\* every Run that was started is still active,
NoneReturned ==
  Cardinality({i \in 1..Len(log) : log[i].e = "Run"})
    = Cardinality({k \in 1..Len(stack) : stack[k].pc # "setup"})

\* flag fl was given on the command line of frame i, under one of its names,
GivenAt(i, fl) ==
  \E n \in Given(stack[i]) : InEffect(i, n) = <<fl>>

\* the names of the flag tokens that lead the arguments, up to the first
\* that is not among the given names,
RECURSIVE LeadingAmong(_, _)
LeadingAmong(toks, names) ==
  IF toks = <<>> \/ Head(toks) \notin DOMAIN FlagTok
     \/ FlagTok[Head(toks)] \notin names
    THEN {}
    ELSE {FlagTok[Head(toks)]} \cup LeadingAmong(Tail(toks), names)

\* the names under which the parse of frame i set a flag, which are those
\* given to it when the parse did not fail,
Taken(i) ==
  LeadingAmong(ArgsTail(stack[i].osArgs), Declared(stack[i].cmd))

\* and the value flag fl has after the parses so far: true when a source
\* supplied it or the parse of some command set it.
Resolved(fl) ==
  fl.Sourced
  \/ \E i \in 1..Len(stack) :
       Parsed(i) /\ \E n \in Taken(i) : InEffect(i, n) = <<fl>>

\* the nearest frame, from frame k down to the root, whose command has a flag
\* in effect under name n; 0 when there is none
Holder(k, n) ==
  IF \E j \in 1..k : InEffect(j, n) # <<>>
    THEN Max({j \in 1..k : InEffect(j, n) # <<>>})
    ELSE 0

\* C11, as the specification states it: after the parse of a command,
\* IsSet(n), for a name n of a flag of the command or of one of its
\* ancestors, is true if and only if the command line gave the flag that n
\* denotes, under any of its names, or a value source supplied its value; so
\* the answer is the same for all names of the flag.
C11_IsSetIffSupplied ==
  \A k \in 1..Len(stack) :
    (ParsedOK(k) /\ NoneReturned) =>
      \A n \in FlagNameSet :
        Holder(k, n) # 0 =>
          LET fl == InEffect(Holder(k, n), n)[1] IN
          IsSet(stack[k].cmd, n)
            <=> (fl.Sourced \/ \E i \in Holder(k, n)..k : GivenAt(i, fl))

C13_ChildSeesParentValue ==
  \A k \in 1..Len(stack) :
    (ParsedOK(k) /\ NoneReturned) =>
      \A n \in FlagNameSet :
        LET c == stack[k].cmd IN
        /\ DeclaredAs(c, n) # {} =>
              CommandValue(c, n) = <<Resolved(InEffect(k, n)[1])>>
        /\ (k > 1 /\ DeclaredAs(c, n) = {}
                  /\ DeclaredAs(stack[k - 1].cmd, n) # {}) =>
              CommandValue(c, n) = CommandValue(stack[k - 1].cmd, n)

\* C13, as the code has it: Value(n) is the value of the flag that n denotes
\* in the flag set of the nearest command of the lineage whose flag set
\* defines n, and nil when there is none.  The flag set of a command defines
\* its own flags and the persistent flags applied to it, so a command that
\* declares no flag named n sees the persistent flag of its nearest ancestor
\* that has one, and only when there is none the flag, persistent or not, of
\* the nearest ancestor that declares the name.
C13_ValueOfNearestFlagSet ==
  \A k \in 1..Len(stack) :
    (ParsedOK(k) /\ NoneReturned) =>
      \A n \in FlagNameSet :
        CommandValue(stack[k].cmd, n) =
          IF Holder(k, n) = 0 THEN <<>>
          ELSE <<Resolved(InEffect(Holder(k, n), n)[1])>>

\* C13, reached: sub declares its own flag a and was not given it, app was
\* given its flag a, which is not persistent; sub sees false and leaf, which
\* declares no flag, sees what sub sees
C13_Witness ==
  /\ Len(stack) = 3 /\ ParsedOK(3) /\ NoneReturned
  /\ DeclaredAs("sub", "a") # {} /\ PersistentAbove(3, "a") = {}
  /\ CommandValue("app", "a") = <<TRUE>>
  /\ CommandValue("sub", "a") = <<FALSE>>
  /\ CommandValue("leaf", "a") = <<FALSE>>


(* --------------------------- default commands -------------------------- *)
\* the frames whose Run has resolved, or has faulted resolving, a first
\* positional argument that names no child of the command
Unmatched(k) ==
  /\ stack[k].pc \in {"called", "action", "panic"}
  /\ stack[k].args # <<>>
  /\ Command(stack[k].cmd, stack[k].args[1]) = NIL

\* the names of the flags declared on the commands of frames 1 to k
DeclaredNames(k) ==
  UNION {Declared(stack[j].cmd) : j \in 1..k}

\* the command of frame k has a DefaultCommand, and the first positional
\* argument is a declared flag name or names a child of the default command
FallbackExpected(k) ==
  LET c  == stack[k].cmd
      dc == Command(c, cfg.DefaultCommand[c])
  IN  /\ cfg.DefaultCommand[c] # ""
      /\ \/ stack[k].args[1] \in DeclaredNames(k)
         \/ /\ dc # NIL
            /\ \E i \in 1..Len(Commands(dc)) :
                 HasName(Commands(dc)[i], stack[k].args[1])

\* frame k called Run of the command its DefaultCommand names
RanDefault(k) ==
  /\ stack[k].pc = "called"
  /\ k < Len(stack)
  /\ cfg.DefaultCommand[stack[k].cmd] # ""
  /\ stack[k + 1].cmd = cfg.DefaultCommand[stack[k].cmd]

\* C14: when the first positional argument names no child of the command,
\* Run calls the default command if and only if a DefaultCommand is
\* configured and the argument is the name of a flag declared on the command
\* or on one of its ancestors, or names a child of the default command;
\* otherwise it goes on to the command's own Action.
C14_FallbackIffDeclaredFlagOrChild ==
  \A k \in 1..Len(stack) :
    Unmatched(k) =>
      IF FallbackExpected(k) THEN RanDefault(k) ELSE stack[k].pc = "action"


\* frame k called Run of its default command because its first positional
\* argument named no child
Fallback(k) ==
  /\ RanDefault(k)
  /\ stack[k].args # <<>>
  /\ Command(stack[k].cmd, stack[k].args[1]) = NIL

\* the number of times Run of command c was called
Runs(c) == Cardinality({i \in 1..Len(log) : log[i].e = "Run" /\ log[i].cmd = c})

\* C15: when the fallback applies, the default command is run once, and the
\* arguments it parses are the positional arguments of the calling command,
\* the unrecognised one first.
C15_DefaultParsesUnrecognisedToken ==
  \A k \in 1..Len(stack) :
    Fallback(k) =>
      /\ Runs(stack[k + 1].cmd) <= 1
      /\ ArgsTail(stack[k + 1].osArgs) = stack[k].args


\* C16: a command whose DefaultCommand names one of its children, and which
\* is left with no positional argument after its parse, calls Run of that
\* child and does not run its own Action.
C16_NoArgsRunsDefaultChild ==
  \A k \in 1..Len(stack) :
    ( /\ stack[k].pc \in {"called", "action"}
      /\ stack[k].args = <<>>
      /\ Command(stack[k].cmd, cfg.DefaultCommand[stack[k].cmd]) # NIL )
    => RanDefault(k)


\* the depth of the declared tree below command c, c included
RECURSIVE Depth(_, _)
Depth(c, fuel) ==
  IF fuel = 0 \/ Commands(c) = <<>> THEN 1
  ELSE 1 + Max({Depth(Commands(c)[i], fuel - 1) : i \in 1..Len(Commands(c))})

\* the active Runs form a path of the tree from the root down: each but the
\* innermost is waiting for the Run it called on one of its children; there
\* are no more of them than the tree is deep, and no command is run twice
OneCallEach ==
  /\ Len(stack) <= Depth("app", Cardinality(Cmds))
  /\ \A k \in 1..(Len(stack) - 1) :
       /\ stack[k].pc = "called"
       /\ stack[k + 1].cmd \in Range(Commands(stack[k].cmd))
  /\ \A c \in Cmds : Runs(c) <= 1

\* the outermost Run has returned, or Run has faulted
Terminated == result.done \/ At("panic")

\* C17: every Run terminates; each Run calls Run at most once, on a child of
\* its command, so that there are never more active Runs than the tree is
\* deep, and the default command is called at most once.
C17_RunTerminates == []OneCallEach /\ <>Terminated

\* Run returned after the default command, reached by the fallback, had
\* called its own child
C17_Witness ==
  /\ result.done
  /\ Runs("leaf") = 1
  /\ "sub" \notin Range(argv)


(* ------------------- a serialized value, given back -------------------- *)
\* the last value given to Set of the flag's cell is what the second cell
\* serializes to
RoundTripped ==
  /\ ~value.nil /\ ~peer.nil
  /\ occurrences # <<>>
  /\ occurrences[Len(occurrences)] = Serialize(mem, peer)

\* C18: c2.Set(c1.Serialize()) returns no error and leaves c2 usable, with
\* c2.Value() equal to c1.Value(), whatever c2 held before and whether c1 is
\* empty or was never given a slice: here c2 is the cell of the flag and c1
\* the second cell.
C18_SerializedSetRoundTrip ==
  RoundTripped =>
    /\ failed = ""
    /\ ~Get(mem, value).panic
    /\ Value(mem, value) = Value(mem, peer)


(* ------------------------- lookups that find nothing ------------------- *)
\* no flag set of the lineage of c defines the name
Unknown(c, name) ==
  \A i \in 1..Len(Lineage(c)) :
    flagSet[Lineage(c)[i]].nil \/ ~Defined(flagSet[Lineage(c)[i]], name)

\* the commands of the lineage of c, c included, that declare a handler, as
\* places in the lineage
Handlers(c) ==
  {i \in 1..Len(Lineage(c)) :
     <<Lineage(c)[i], "InvalidFlagAccessHandler">> \in cfg.hooks}

\* C19: a lookup of a name that no flag set of the command's lineage defines
\* gives nil for Value, false for IsSet, 0 for Count and the error "no such
\* flag" for Set, changes no flag set and no flag, and calls the handler of
\* the nearest command of the lineage that declares one, once, and no other;
\* when none declares one, nothing is called.
C19_UnknownNameLookup ==
  [][ ( /\ access.op = ""
        /\ access'.op # ""
        /\ Unknown(access'.cmd, access'.name) )
      => /\ access'.value = <<>>
         /\ ~access'.isSet
         /\ access'.count = 0
         /\ access'.op = "Set" <=> access'.err = "no such flag"
         /\ flagSet' = flagSet
         /\ flagValue' = flagValue
         /\ hasBeenSet' = hasBeenSet
         /\ log' = IF Handlers(access'.cmd) = {} THEN log
                   ELSE Append(log, [e |-> "InvalidFlagAccessHandler",
                                     cmd |-> Lineage(access'.cmd)[Min(Handlers(access'.cmd))],
                                     err |-> NoErr, arg |-> access'.name])
    ]_vars

\* C19, reached: Value was asked of leaf for a name no flag has, and the
\* handler of sub, the nearest there is, was called, app having one too
C19_Witness ==
  /\ access.op = "Value" /\ access.cmd = "leaf" /\ access.name = "zz"
  /\ access.value = <<>>
  /\ Handlers("leaf") = {2, 3}
  /\ log # <<>>
  /\ log[Len(log)].e = "InvalidFlagAccessHandler"
  /\ log[Len(log)].cmd = "sub"


(* ------------------------------ Run, twice ----------------------------- *)
\* no callback returned an error in the calls of the log
AllReturnedNil(l) == \A i \in 1..Len(l) : l[i].err = NoErr

\* C20: a second Run of the same tree with the same arguments, in which the
\* callbacks return what they returned in the first, calls the same hooks
\* and flag actions the same number of times, in the same order, and returns
\* the same result.
C20_SecondRunSameAsFirst ==
  ( /\ history # <<>>
    /\ result.done
    /\ AllReturnedNil(log)
    /\ AllReturnedNil(history[1].log) )
  => /\ log = history[1].log
     /\ result = history[1].result


(* ---------------------------- parent pointers -------------------------- *)
\* the commands that no command has among its Commands
Roots == {c \in Cmds : \A d \in Cmds : c \notin Range(Commands(d))}

\* C21: while Run of a root command goes on, and after, the parent of a root
\* is nil and the parent of any other command, once assigned, is the command
\* that has it among its Commands; a parent that has been assigned never
\* changes, whatever command the context given to Run carries.
C21_ParentIsContainer ==
  /\ [](\A c \in Cmds :
          IF c \in Roots THEN parent[c] = NIL
          ELSE parent[c] # NIL => c \in Range(Commands(parent[c])))
  /\ [][\A c \in Cmds : parent[c] # NIL => parent'[c] = parent[c]]_vars


(* ---------------------------- integer literals ------------------------- *)
\* the digits of a literal after its sign
Unsigned(s) == IF s # <<>> /\ s[1] \in {"+", "-"} THEN Tail(s) ELSE s

\* the literal is one of a number: a sign where the kind has one, then
\* digits of the base its prefix selects, at least one, or a lone 0
WellFormed(kind, s) ==
  LET u == IF kind = "int" THEN Unsigned(s) ELSE s
      p == BasePrefix(u)
  IN  /\ u # <<>>
      /\ \A i \in 1..Len(p.rest) :
           Lower(p.rest[i]) \in DOMAIN DigitVal /\ DigitVal[Lower(p.rest[i])] < p.base
      /\ p.rest = <<>> => u = <<"0">>

\* the number a well formed literal denotes
Denotes(kind, s) ==
  LET u == IF kind = "int" THEN Unsigned(s) ELSE s
      p == BasePrefix(u)
      m == Number([i \in 1..Len(p.rest) |-> Lower(p.rest[i])], p.base)
  IN  IF kind = "int" /\ s[1] = "-" THEN 0 - m ELSE m

\* the numbers a cell of the kind can hold
InRange(kind, n) ==
  IF kind = "int" THEN 0 - Pow2(IntSize - 1) <= n /\ n < Pow2(IntSize - 1)
                  ELSE 0 <= n /\ n < Pow2(IntSize)

\* the decimal rendering of a number: a minus for a negative one, then its
\* digits, without a leading zero
Canonical(str, n) ==
  LET digits == IF n < 0 THEN Tail(str) ELSE str IN
  /\ n < 0 <=> (str # <<>> /\ str[1] = "-")
  /\ IsDigits(digits, 10)
  /\ Len(digits) > 1 => digits[1] # "0"
  /\ Number(digits, 10) = (IF n < 0 THEN 0 - n ELSE n)

\* C22: Set accepts a literal if and only if it is well formed and denotes a
\* number in the range of the cell; then Get gives that number, String its
\* decimal rendering, and Set(String()) is accepted and leaves the number;
\* a rejected literal leaves the number the cell had.
C22_IntegerLiteralRoundTrip ==
  sets # <<>> =>
    LET k == number.kind
        s == sets[1].s
        valid == WellFormed(k, s) /\ InRange(k, Denotes(k, s))
    IN  /\ ~sets[1].err <=> valid
        /\ valid => /\ GetNumber(number) = Denotes(k, s)
                    /\ Canonical(String(number), Denotes(k, s))
        /\ ~valid => GetNumber(number) = sets[1].before
        /\ Len(sets) = 2 => ~sets[2].err /\ GetNumber(number) = sets[2].before

\* C22, reached: a hexadecimal literal was set, and then its decimal
\* rendering
C22_Witness ==
  /\ Len(sets) = 2
  /\ sets[1].s = <<"0", "x", "f">>
  /\ number.v = 15
  /\ sets[2].s = <<"1", "5">>


(* ------------------------- serialized values --------------------------- *)
\* the places of the serialized values among the occurrences
Snapshots == {k \in 1..Len(occurrences) : HasPrefix(occurrences[k])}

\* every token of the value is an integer
Parses(raw) ==
  \A k \in 1..Len(flagSplitMultiValues(raw)) :
    ParseInt(TrimSpace(flagSplitMultiValues(raw)[k])).ok

\* C23: after a serialized value, whatever was set before it and whatever
\* the separator settings, the cell holds the elements of the snapshot and
\* nothing else, and the values set after it, which are not serialized and
\* whose tokens are integers, are appended to them.
C23_SnapshotReplaces ==
  ( /\ ~value.nil
    /\ Snapshots # {}
    /\ \A k \in (Max(Snapshots) + 1)..Len(occurrences) : Parses(occurrences[k]) )
  => /\ failed # "Set"
     /\ Value(mem, value) =
          Unmarshal(Tail(occurrences[Max(Snapshots)])).val
            \o AllElems(SubSeq(occurrences, Max(Snapshots) + 1, Len(occurrences)))

\* C24: the slice variable a flag's default was declared from holds the
\* declared default whatever Set and SetOne calls the flag's cell receives, and
\* when the flag has been applied and its cell has not been set, the cell,
\* and the Destination when one is bound, holds a copy of what the cell was
\* created with (the default, when no source gave a value), whatever the
\* Destination held before.
C24_DefaultNotModified ==
  /\ mem["val"] = sliceFlag.Value
  /\ (~value.nil /\ ~value.hasBeenSet) =>
       LET created == IF sliceFlag.Sources = <<>> THEN sliceFlag.Value
                      ELSE AllElems(sliceFlag.Sources)
       IN  /\ Value(mem, value) = created
           /\ sliceFlag.Destination => mem["dest"] = created

C24_Witness ==
  /\ sliceFlag.Value = <<10, 11>> /\ sliceFlag.Destination
  /\ occurrences # <<>> /\ failed = ""
  /\ 6 \in Range(mem["dest"])
  /\ mem["val"] = <<10, 11>>

\* C25: along a dispatch path, the Run of a sub-command begins only when the
\* command that dispatches to it has parsed its flags, passed its required
\* flag check and its group checks, and its Before, if it has one, has
\* returned nil; when the Action of the last command of the path has run,
\* every After comes after it, the After of a sub-command comes before the
\* After of the command that dispatched to it, and once the outermost Run
\* has returned every command of the path that has an After has run it
\* exactly once.
C25_PathOrder ==
  /\ \A k \in 2..Len(stack) :
       LET f == stack[k - 1]
           c == f.cmd
       IN  /\ f.pc = "called"
           /\ flagSet[c] # NilFlagSet
           /\ ~ParseFails(f) /\ RequiredMissing(f) = {} /\ ~GroupViolated(f)
           /\ Has(c, "Before") =>
                /\ Idx("Before", c) # {} /\ Failing("Before", c) = {}
                /\ Precede(Idx("Before", c), Idx("Run", stack[k].cmd))
  /\ \A c \in Cmds :
       /\ \A d \in Range(Commands(c)) : Precede(Idx("After", d), Idx("After", c))
       /\ Idx("Action", c) # {} =>
            \A d \in Cmds :
              /\ Precede(Idx("Action", c), Idx("After", d))
              /\ (result.done /\ Ran(d) /\ Has(d, "After"))
                   => Cardinality(Idx("After", d)) = 1

\* C25, reached: the outermost Run has returned after the path app, sub,
\* leaf: the three commands ran their Before, leaf ran its Action, and the
\* three ran their After
C25_Witness ==
  /\ result.done
  /\ Idx("Action", "leaf") # {}
  /\ \A c \in Cmds : Idx("Before", c) # {} /\ Idx("After", c) # {}

\* the Run of the frame's command failed by itself before its deferred
\* function: on a check, in Before, in a flag action or in its Action
OwnFailure(f) ==
  \/ RequiredMissing(f) # {}
  \/ GroupViolated(f)
  \/ \E e \in {"Before", "FlagAction", "Action"} : Failing(e, f.cmd) # {}

\* C26: when the Run of a command that has an After is about to return, its
\* After has run exactly once if the flag parse succeeded, a missing
\* required flag, a violated group and a failing flag action included, and has
\* not run if the flag parse failed; the error of After is the last of the
\* errors Run returns, after the error Run was returning, and the only one
\* when neither the command nor a sub-command had failed.
C26_AfterOncePastParse ==
  \A k \in 1..Len(stack) :
    LET f == stack[k]
        c == f.cmd
    IN  (f.pc = "ret" /\ Has(c, "After")) =>
          /\ ParseFails(f) => Idx("After", c) = {}
          /\ ~ParseFails(f) => Cardinality(Idx("After", c)) = 1
          /\ \A j \in Failing("After", c) :
               /\ f.deferErr # NoErr
               /\ <<f.deferErr[Len(f.deferErr)]>> = log[j].err
               /\ OwnFailure(f) =>
                    /\ Len(f.deferErr) = 2
                    /\ f.deferErr[1].cmd = c
                    /\ f.deferErr[1].kind \in
                         {"Required", "Group", "Before", "FlagAction", "Action"}
               /\ (~OwnFailure(f) /\ \A d \in Range(Commands(c)) : ~Ran(d))
                    => Len(f.deferErr) = 1
          /\ (Failing("After", c) = {} /\ ~ParseFails(f) /\ OwnFailure(f))
               => Len(f.deferErr) = 1 /\ f.deferErr[1].kind # "After"

\* C26, reached: the Run of sub is about to return the error of its failing
\* flag action combined with the error of its After
C26_Witness ==
  /\ At("ret") /\ Top.cmd = "sub"
  /\ Failing("FlagAction", "sub") # {}
  /\ Failing("After", "sub") # {}
  /\ Len(Top.deferErr) = 2

\* C27: when Set of the flag's cell returns an error, the cell is as it was
\* before the call: it holds the same elements, the declared default
\* included, and its first-set marker is unchanged.
C27_FailedSetLeavesCell ==
  [][(failed = "" /\ failed' = "Set")
       => /\ Value(mem', value') = Value(mem, value)
          /\ value'.hasBeenSet = value.hasBeenSet]_vars

\* C28: a command whose DefaultCommand names none of its children does not
\* fault when it resolves its sub-command: whatever its positional arguments
\* are, it calls Run of the child that the first of them names, and goes on
\* to its own Action when there is none or it names no child.
C28_NoFaultOnUnknownDefault ==
  \A k \in 1..Len(stack) :
    LET f == stack[k]
        c == f.cmd
    IN  ( /\ cfg.DefaultCommand[c] # ""
          /\ Command(c, cfg.DefaultCommand[c]) = NIL
          /\ f.pc \in {"called", "action", "panic"} )
        => IF f.args # <<>> /\ Command(c, f.args[1]) # NIL
             THEN f.pc = "called" /\ stack[k + 1].cmd = Command(c, f.args[1])
             ELSE f.pc = "action"

\* C29: for a command with SkipFlagParsing whose parse is done, no flag is
\* set from the command line and its positional arguments are all the tokens
\* after its name; the argument list parseFlags handed back to Run is that
\* list, and when its first token names a child of the command, Run calls
\* the Run of that child.
C29_SkipFlagParsingArgs ==
  \A k \in 1..Len(stack) :
    LET f == stack[k]
        c == f.cmd
    IN  (c \in cfg.SkipFlagParsing /\ f.pc \notin {"setup", "parse"}) =>
          /\ flagSet[c].actual = {}
          /\ Args(c) = ArgsTail(f.osArgs)
          /\ f.args = Args(c)
          /\ ( /\ f.pc \in {"called", "action"}
               /\ Args(c) # <<>>
               /\ Command(c, Args(c)[1]) # NIL )
             => /\ f.pc = "called"
                /\ stack[k + 1].cmd = Command(c, Args(c)[1])

\* C30: when the root sets DisableSliceFlagSeparator, a value with a
\* separator is not split while a command of the dispatch path is about to
\* parse its flags, and the setup of a command other than the root that
\* leaves its own DisableSliceFlagSeparator unset does not change the
\* process-wide knob.
C30_SplitStaysDisabled ==
  /\ []( ("app" \in cfg.DisableSliceFlagSeparator /\ At("parse"))
           => flagSplitMultiValues(<<"2", ",", "3">>) = << <<"2", ",", "3">> >> )
  /\ [][ ( /\ At("setup")
           /\ Top.cmd # "app"
           /\ Top.cmd \notin cfg.DisableSliceFlagSeparator )
         => disableSliceFlagSeparator' = disableSliceFlagSeparator ]_vars

====
